---- MODULE Spec2Model ----
(***************************************************************************)
(* whatsapp-notifier: the session manager (internal/app), the HTTP         *)
(* middleware chain with its token-bucket limiter (internal/middleware)    *)
(* and the webhook, /send and /health handlers (internal/handlers).       *)
(*                                                                         *)
(* Seventeen specifications share the definitions below:                   *)
(*   Spec         the session under full concurrency: transport events,    *)
(*                reconnection goroutines, Connect/EnsureConnected         *)
(*                callers and Disconnect;                                  *)
(*   SpecBackoff  the same session with one reconnection goroutine at a    *)
(*                time and enough failed connects to walk one retry loop   *)
(*                through all of its attempts;                             *)
(*   SpecEvents   the session and its reconnection goroutines with no      *)
(*                Disconnect call;                                         *)
(*   SpecHTTP     the middleware chain and the limiter under a clock;      *)
(*   SpecLimit    the same chain serving /send to one client that comes    *)
(*                over two connections and through a proxy;                *)
(*   SpecAuth     the chain serving every route over one connection;       *)
(*   SpecAllow    goroutines inside RateLimiter.Allow at the same time;    *)
(*   SpecErrors   the error responses of the handlers and the chain;       *)
(*   SpecWebhook  one webhook request at a time against the session;       *)
(*   SpecSend     one /send request at a time against the session;         *)
(*   SpecQuery    one /contacts or /groups request against the session;    *)
(*   SpecStatus   IsConnected and GetConnectionStatus beside the session;  *)
(*   SpecTriggers every operation and event of the session that could      *)
(*                start a reconnection goroutine;                          *)
(*   SpecRecovery the session with a record of the disconnects that still  *)
(*                await a reconnection;                                    *)
(*   SpecEnsure   EnsureConnected callers against an accepting transport;  *)
(*   SpecTerminate the reconnection goroutine under fair scheduling;       *)
(*   SpecLocks    the users of rl.mutex and of w.reconnectMutex under      *)
(*                fair scheduling.                                         *)
(***************************************************************************)
EXTENDS Integers, Sequences, FiniteSets, TLC

\* ------------------------------------------------------------------ bounds

\* failed attempts one retry loop may make in Spec (SpecBackoff: MaxRetries)
MaxFailures == 1

\* RateLimiter.requestsPerMinute and RateLimiter.windowSize are fields that
\* middleware.New sets to 60 and time.Minute; the limiter is checked for a
\* small capacity and a window of a few clock ticks
requestsPerMinute == 2
windowSize == 2
\* the clock stops at MaxTime ticks
MaxTime == 2

\* --------------------------------------------------------- program constants

\* ReconnectConfig.MaxRetries
MaxRetries == 10
\* A time.Duration is an int64 count of nanoseconds.  Durations are kept as
\* q * Unit + r nanoseconds with 0 <= r < Unit, so that every product stays
\* inside TLC's integers.  Unit is 5 s / 512 = 5^10 ns: InitialInterval is
\* 512 units, and 512 * (3/2)^k is a whole number of units for k <= 9.
Unit == 9765625
\* ReconnectConfig.InitialInterval = 5 * time.Second
InitialInterval == [q |-> 512, r |-> 0]
\* ReconnectConfig.MaxInterval = 5 * time.Minute = 300 s = 30720 units
MaxInterval == [q |-> 30720, r |-> 0]
\* ReconnectConfig.Multiplier = 1.5, as the fraction MultNum / MultDen
MultNum == 3
MultDen == 2

VARIABLES
    \* WhatsAppClient
    isConnected,       \* w.isConnected
    cancelReconnect,   \* w.cancelReconnect: "nil", or the goroutine whose ctx it cancels
    mu,                \* w.reconnectMutex: "free" or the caller holding Lock()
    \* the whatsmeow client
    clientConnected,   \* w.Client.IsConnected()
    storeID,           \* w.Client.Store.ID != nil
    evConnected,       \* an events.Connected waits to be dispatched
    evDisconnected,    \* an events.Disconnected waits to be dispatched
    \* goroutines
    loops,             \* startReconnection goroutines, by slot
    callers,           \* goroutines inside Connect / EnsureConnected
    \* history
    closed,            \* Disconnect() returned and no caller asked to connect since
    \* middleware
    clients,           \* rl.clients: the bucket of each client, or NoBucket
    now,               \* time.Now(), in ticks
    admitted,          \* history: the Allow calls that returned true, by client and tick
    lastReq,           \* the last request served and its response
    arrived,           \* history: the /send requests of each client at this
                       \* tick, counted up to requestsPerMinute + 1
    rlMutex,           \* rl.mutex: free, or the goroutine that holds it
    allowers,          \* goroutines inside RateLimiter.Allow
    granted,           \* history: the Allow calls that returned true, by
                       \* client and by the refill time of the bucket they took from
    \* webhook handler
    wh,                \* the webhook request being served: position, inputs,
                       \* the calls made for it so far, the response
    send,              \* the /send request being served, likewise
    \* status readers
    status,            \* a goroutine inside IsConnected() or GetConnectionStatus()
    query,             \* the /contacts or /groups request being served
    written,           \* the last error response a handler wrote
    evStreamError,     \* an events.StreamError waits to be dispatched
    reconnectOwed      \* history: an events.Disconnected was handled with a
                       \* credential stored and no Disconnect() asked for, and
                       \* no reconnection goroutine has called
                       \* w.Client.Connect() since

sessionVars == <<isConnected, cancelReconnect, mu, clientConnected, storeID,
                 evConnected, evDisconnected, loops, callers, closed>>

limiterVars == <<rlMutex, allowers, granted>>
httpVars == <<clients, now, admitted, lastReq, arrived, limiterVars>>

\* the requests in flight in the handlers, and the event that
\* handleConnectionEvents only logs
handlerVars == <<wh, send, status, query, written, evStreamError,
                 reconnectOwed>>

vars == <<sessionVars, httpVars, handlerVars>>

\* goroutines running startReconnection (a finished goroutine frees its name)
Loops == {"L1", "L2"}
\* a goroutine calling into the session: main at startup, or an HTTP handler
Callers == {"task"}
\* the goroutine that serves the webhook request
Handlers == {"webhook"}
\* the goroutine serving /send, as a caller of the session manager
Senders == {"send"}

NoWait == [q |-> 0, r |-> 0]
IdleLoop == [pc |-> "idle", attempt |-> 0, interval |-> NoWait,
             waited |-> NoWait, tries |-> 0, cancelled |-> FALSE]
\* a caller: where it stands in Connect, the call it made (op), what the call
\* returned (ret) and why (cause), and, for the call in progress, the Connect
\* invocations (connects) and the pairing codes asked for (codes)
IdleCaller == [pc |-> "idle", ret |-> "none", op |-> "none", cause |-> "none",
               connects |-> 0, codes |-> 0]
\* the caller's record when its call returns
Return(caller, ret, cause) ==
    [caller EXCEPT !.pc = "idle", !.ret = ret, !.cause = cause]
\* a goroutine reading the session's status
IdleStatus == [pc |-> "idle", op |-> "none"]

\* sync.RWMutex: Lock() needs no writer and no reader inside, RLock() no writer
CanLock == mu = "free" /\ status.pc # "reading"
CanRLock == mu = "free"

\* ------------------------------------------------------------- durations

Nanos(q, r) == [q |-> q + (r \div Unit), r |-> r % Unit]

DurLess(a, b) == a.q < b.q \/ (a.q = b.q /\ a.r < b.r)

\* the multiplication with the multiplier taken as 2
ScaleDuration_Double(d) == Nanos(2 * d.q, 2 * d.r)

\* time.Duration(float64(d) * Multiplier): the product is exact in float64
\* (below 2^53, a multiple of 1/2) and the conversion truncates toward zero.
\* With 3 * q = 2 * a + b:  floor(3 * (q * Unit + r) / 2)
\*                        = a * Unit + floor((b * Unit + 3 * r) / 2).
ScaleDuration(d) ==
    LET n == MultNum * d.q
        a == n \div MultDen
        b == n % MultDen
    IN  Nanos(a, (b * Unit + MultNum * d.r) \div MultDen)

\* lines 170-173: the next interval after a failed attempt
NextInterval(d) ==
    LET s == ScaleDuration(d)
    IN  IF DurLess(MaxInterval, s) THEN MaxInterval ELSE s

\* ------------------------------------------------------- the session: Init

SessionInit ==
    /\ isConnected = FALSE
    /\ cancelReconnect = "nil"
    /\ mu = "free"
    /\ clientConnected = FALSE
    /\ storeID \in BOOLEAN          \* GetFirstDevice: a stored session or none
    /\ evConnected = FALSE
    /\ evDisconnected = FALSE
    /\ loops = [l \in Loops |-> IdleLoop]
    /\ callers = [c \in Callers \cup Handlers \cup Senders |-> IdleCaller]
    /\ closed = FALSE

\* ---------------------------------------------------- the transport client

\* The socket drops: whatsmeow dispatches events.Disconnected on its own
\* goroutine, so the handler runs some time after the socket went down.
TransportDrop ==
    /\ clientConnected
    /\ clientConnected' = FALSE
    /\ evDisconnected' = TRUE
    /\ UNCHANGED <<isConnected, cancelReconnect, mu, storeID, evConnected,
                   loops, callers, closed>>

\* ------------------------------------------------ handleConnectionEvents

\* case *events.Connected (lines 88-97)
HandleConnected ==
    /\ evConnected
    /\ CanLock
    /\ evConnected' = FALSE
    /\ isConnected' = TRUE
    /\ loops' = IF cancelReconnect # "nil"
                THEN [loops EXCEPT ![cancelReconnect].cancelled = TRUE]
                ELSE loops
    /\ cancelReconnect' = "nil"
    /\ UNCHANGED <<mu, clientConnected, storeID, evDisconnected, callers,
                   closed>>

\* case *events.Disconnected (lines 99-110); the goroutine of line 109 takes
\* a free slot of S
HandleDisconnected(S) ==
    /\ evDisconnected
    /\ CanLock
    /\ evDisconnected' = FALSE
    /\ isConnected' = FALSE
    /\ LET shouldReconnect == cancelReconnect = "nil"
       IN  IF shouldReconnect
           THEN /\ \E l \in S : loops[l].pc = "idle"
                /\ LET l == CHOOSE k \in S : loops[k].pc = "idle"
                   IN  loops' = [loops EXCEPT ![l].pc = "start"]
           ELSE loops' = loops
    /\ UNCHANGED <<cancelReconnect, mu, clientConnected, storeID, evConnected,
                   callers, closed>>

\* the server ends the stream with an error: whatsmeow dispatches
\* events.StreamError
TransportStreamError ==
    /\ clientConnected
    /\ ~evStreamError
    /\ evStreamError' = TRUE
    /\ UNCHANGED sessionVars

\* the StreamError case, had it started the reconnection as the Disconnected
\* case does
HandleStreamError_Reconnect ==
    /\ evStreamError
    /\ evStreamError' = FALSE
    /\ \E l \in Loops :
          /\ loops[l].pc = "idle"
          /\ loops' = [loops EXCEPT ![l].pc = "start"]
    /\ UNCHANGED <<isConnected, cancelReconnect, mu, clientConnected, storeID,
                   evConnected, evDisconnected, callers, closed>>

\* case *events.StreamError (lines 112-113): the error is logged
HandleStreamError ==
    /\ evStreamError
    /\ evStreamError' = FALSE
    /\ UNCHANGED sessionVars

\* ------------------------------------------------------ startReconnection

\* lines 119-137: the guard check, and the installation of the cancel handle
LoopStart(l) ==
    /\ loops[l].pc = "start"
    /\ CanLock
    /\ IF isConnected \/ cancelReconnect # "nil"
       THEN /\ loops' = [loops EXCEPT ![l] = IdleLoop]
            /\ UNCHANGED cancelReconnect
       ELSE /\ cancelReconnect' = l
            /\ loops' = [loops EXCEPT ![l] =
                            [pc |-> "select", attempt |-> 1,
                             interval |-> InitialInterval, waited |-> NoWait,
                             tries |-> 0, cancelled |-> FALSE]]
    /\ UNCHANGED <<isConnected, mu, clientConnected, storeID, evConnected,
                   evDisconnected, callers, closed>>

\* lines 140-143: select takes <-ctx.Done()
LoopCancelled(l) ==
    /\ loops[l].pc = "select"
    /\ loops[l].cancelled
    /\ loops' = [loops EXCEPT ![l].pc = "exit"]
    /\ UNCHANGED <<isConnected, cancelReconnect, mu, clientConnected, storeID,
                   evConnected, evDisconnected, callers, closed>>

\* lines 144-153: select takes <-time.After(interval) (when both channels are
\* ready Go picks either), then reads w.isConnected under RLock
LoopTimer(l) ==
    /\ loops[l].pc = "select"
    /\ CanRLock
    /\ loops' = [loops EXCEPT ![l].waited = loops[l].interval,
                              ![l].pc = IF isConnected THEN "exit" ELSE "proto"]
    /\ UNCHANGED <<isConnected, cancelReconnect, mu, clientConnected, storeID,
                   evConnected, evDisconnected, callers, closed>>

\* line 158: w.Client.IsConnected(), read without the lock
LoopProto(l) ==
    /\ loops[l].pc = "proto"
    /\ loops' = [loops EXCEPT ![l].pc = IF clientConnected THEN "setConn"
                                                          ELSE "connect"]
    /\ UNCHANGED <<isConnected, cancelReconnect, mu, clientConnected, storeID,
                   evConnected, evDisconnected, callers, closed>>

\* lines 159-163
LoopSetConnected(l) ==
    /\ loops[l].pc = "setConn"
    /\ CanLock
    /\ isConnected' = TRUE
    /\ loops' = [loops EXCEPT ![l].pc = "exit"]
    /\ UNCHANGED <<cancelReconnect, mu, clientConnected, storeID, evConnected,
                   evDisconnected, callers, closed>>

\* lines 166, 178-179: w.Client.Connect() returns nil.  whatsmeow dispatches
\* events.Connected once the stored session has logged in.
LoopConnectOK(l) ==
    /\ loops[l].pc = "connect"
    /\ ~clientConnected
    /\ clientConnected' = TRUE
    /\ evConnected' = (evConnected \/ storeID)
    /\ loops' = [loops EXCEPT ![l].tries = loops[l].tries + 1,
                              ![l].pc = "exit"]
    /\ UNCHANGED <<isConnected, cancelReconnect, mu, storeID, evDisconnected,
                   callers, closed>>

\* the failed attempt, had the loop not counted it
LoopConnectFail_NoCount(l, budget) ==
    /\ loops[l].pc = "connect"
    /\ loops[l].attempt <= budget
    /\ loops' = [loops EXCEPT
                    ![l].tries = loops[l].tries,
                    ![l].interval = NextInterval(loops[l].interval),
                    ![l].pc = "select"]
    /\ UNCHANGED <<isConnected, cancelReconnect, mu, clientConnected, storeID,
                   evConnected, evDisconnected, callers, closed>>

\* lines 166-176, 139, 183: w.Client.Connect() returns an error (always so when
\* the socket is already up: ErrAlreadyConnected); budget caps the failed
\* attempts of one loop
LoopConnectFail(l, budget) ==
    /\ loops[l].pc = "connect"
    /\ loops[l].attempt <= budget
    /\ loops' = [loops EXCEPT
                    ![l].tries = loops[l].tries + 1,
                    ![l].interval = NextInterval(loops[l].interval),
                    ![l].attempt = loops[l].attempt + 1,
                    ![l].pc = IF loops[l].attempt + 1 <= MaxRetries
                              THEN "select" ELSE "exit"]
    /\ UNCHANGED <<isConnected, cancelReconnect, mu, clientConnected, storeID,
                   evConnected, evDisconnected, callers, closed>>

\* lines 131-135: the deferred function, then the goroutine ends
LoopExit(l) ==
    /\ loops[l].pc = "exit"
    /\ CanLock
    /\ cancelReconnect' = "nil"
    /\ loops' = [loops EXCEPT ![l] = IdleLoop]
    /\ UNCHANGED <<isConnected, mu, clientConnected, storeID, evConnected,
                   evDisconnected, callers, closed>>

\* ------------------------------------------------------------ IsConnected

\* lines 329-335
IsConnected == isConnected /\ clientConnected

\* --------------------------------------------- Connect and EnsureConnected

\* the caller calls Connect(ctx) (startWhatsAppClient)
CallConnect(c) ==
    /\ callers[c].pc = "idle"
    /\ callers' = [callers EXCEPT ![c] =
                      [IdleCaller EXCEPT !.pc = "lock", !.op = "Connect"]]
    /\ closed' = FALSE
    /\ UNCHANGED <<isConnected, cancelReconnect, mu, clientConnected, storeID,
                   evConnected, evDisconnected, loops>>

\* EnsureConnected that goes to Connect without asking IsConnected()
CallEnsureConnected_NoCheck(c) ==
    /\ callers[c].pc = "idle"
    /\ CanRLock
    /\ callers' = [callers EXCEPT ![c] =
                      [IdleCaller EXCEPT !.pc = "lock",
                                         !.op = "EnsureConnected"]]
    /\ closed' = FALSE
    /\ UNCHANGED <<isConnected, cancelReconnect, mu, clientConnected, storeID,
                   evConnected, evDisconnected, loops>>

\* a handler calls EnsureConnected(ctx) (lines 338-345): IsConnected() under
\* RLock, then Connect
CallEnsureConnected(c) ==
    /\ callers[c].pc = "idle"
    /\ CanRLock
    /\ callers' = [callers EXCEPT ![c] =
                      IF IsConnected
                      THEN [IdleCaller EXCEPT !.ret = "ok",
                                              !.op = "EnsureConnected"]
                      ELSE [IdleCaller EXCEPT !.pc = "lock",
                                              !.op = "EnsureConnected"]]
    /\ closed' = FALSE
    /\ UNCHANGED <<isConnected, cancelReconnect, mu, clientConnected, storeID,
                   evConnected, evDisconnected, loops>>

\* lines 187-189: Connect is entered and takes the lock
ConnectLock(c) ==
    /\ callers[c].pc = "lock"
    /\ CanLock
    /\ mu' = c
    /\ callers' = [callers EXCEPT ![c].pc = "locked",
                                  ![c].connects = callers[c].connects + 1]
    /\ UNCHANGED <<isConnected, cancelReconnect, clientConnected, storeID,
                   evConnected, evDisconnected, loops, closed>>

\* lines 256-261: a stored session, w.Client.Connect() returns nil
ConnectOK(c) ==
    /\ callers[c].pc = "locked"
    /\ storeID
    /\ ~clientConnected
    /\ clientConnected' = TRUE
    /\ evConnected' = TRUE
    /\ callers' = [callers EXCEPT ![c].pc = "up"]
    /\ UNCHANGED <<isConnected, cancelReconnect, mu, storeID, evDisconnected,
                   loops, closed>>

\* lines 264-266, with the stored session: the flag is set and Connect
\* returns nil
ConnectSetFlag(c) ==
    /\ callers[c].pc = "up"
    /\ isConnected' = TRUE
    /\ mu' = "free"
    /\ callers' = [callers EXCEPT ![c] = Return(callers[c], "ok", "none")]
    /\ UNCHANGED <<cancelReconnect, clientConnected, storeID, evConnected,
                   evDisconnected, loops, closed>>

\* the error return, had Connect unlocked by hand on the success path only
ConnectFail_KeepLock(c) ==
    /\ callers[c].pc = "locked"
    /\ mu' = mu
    /\ callers' = [callers EXCEPT ![c] = Return(callers[c], "err", "error")]
    /\ UNCHANGED <<isConnected, cancelReconnect, clientConnected, storeID,
                   evConnected, evDisconnected, loops, closed>>

\* lines 200-207 and 259-261: GetQRChannel or w.Client.Connect() returns an
\* error; Connect returns it
ConnectFail(c) ==
    /\ callers[c].pc = "locked"
    /\ mu' = "free"
    /\ callers' = [callers EXCEPT ![c] = Return(callers[c], "err", "error")]
    /\ UNCHANGED <<isConnected, cancelReconnect, clientConnected, storeID,
                   evConnected, evDisconnected, loops, closed>>

\* lines 191-207: no stored session, the QR channel is open (the one request
\* for pairing codes of this Connect) and the socket up
ConnectQR(c) ==
    /\ callers[c].pc = "locked"
    /\ ~storeID
    /\ ~clientConnected
    /\ clientConnected' = TRUE
    /\ callers' = [callers EXCEPT ![c].pc = "qr",
                                  ![c].codes = callers[c].codes + 1]
    /\ UNCHANGED <<isConnected, cancelReconnect, mu, storeID, evConnected,
                   evDisconnected, loops, closed>>

\* what ends the wait of lines 211-250 with an error: the 60 s of qrCtx are
\* over, the "timeout" event arrives, or the caller's ctx is cancelled (qrCtx
\* is its child)
QRFailures == {"deadline", "expired", "cancelled"}

\* lines 211-220, 248-250: qrCtx is done, or the "timeout" event arrives;
\* Connect returns the error
QRFail(c) ==
    /\ callers[c].pc = "qr"
    /\ \E cause \in QRFailures :
          callers' = [callers EXCEPT ![c] = Return(callers[c], "err", cause)]
    /\ clientConnected' \in {clientConnected, FALSE}
    /\ mu' = "free"
    /\ UNCHANGED <<isConnected, cancelReconnect, storeID, evConnected,
                   evDisconnected, loops, closed>>

\* lines 211, 245-246, 264-266: the "success" event, then the channel closes;
\* pairing stored the device ID, and whatsmeow logs in with it
QRSuccess(c) ==
    /\ callers[c].pc = "qr"
    /\ storeID' = TRUE
    /\ evConnected' = TRUE
    /\ isConnected' = TRUE
    /\ clientConnected' \in {clientConnected, FALSE}
    /\ mu' = "free"
    /\ callers' = [callers EXCEPT ![c] = Return(callers[c], "ok", "none")]
    /\ UNCHANGED <<cancelReconnect, evDisconnected, loops, closed>>

\* lines 211, 252-255, 264-266: the channel closes after events that are
\* neither "success" nor "timeout" (the default branch only logs them)
QRClosed(c) ==
    /\ callers[c].pc = "qr"
    /\ isConnected' = TRUE
    /\ clientConnected' \in {clientConnected, FALSE}
    /\ mu' = "free"
    /\ callers' = [callers EXCEPT ![c] = Return(callers[c], "ok", "none")]
    /\ UNCHANGED <<cancelReconnect, storeID, evConnected, evDisconnected, loops,
                   closed>>

\* -------------------------------------------------------------- Disconnect

\* the part of the session Disconnect works on
SessionState ==
    [isConnected |-> isConnected,
     cancelReconnect |-> cancelReconnect,
     clientConnected |-> clientConnected,
     cancelled |-> [l \in Loops |-> loops[l].cancelled]]

\* Disconnect that forgets line 277 (w.cancelReconnect = nil)
DisconnectState_KeepHandle(s) ==
    [isConnected |-> FALSE,
     cancelReconnect |-> s.cancelReconnect,
     clientConnected |-> FALSE,
     cancelled |-> IF s.cancelReconnect # "nil"
                   THEN [s.cancelled EXCEPT ![s.cancelReconnect] = TRUE]
                   ELSE s.cancelled]

\* lines 274-281: cancel the handle if there is one, w.Client.Disconnect(),
\* w.isConnected = false
DisconnectState(s) ==
    [isConnected |-> FALSE,
     cancelReconnect |-> "nil",
     clientConnected |-> FALSE,
     cancelled |-> IF s.cancelReconnect # "nil"
                   THEN [s.cancelled EXCEPT ![s.cancelReconnect] = TRUE]
                   ELSE s.cancelled]

\* lines 270-283
Disconnect ==
    /\ CanLock
    /\ LET d == DisconnectState(SessionState)
       IN  /\ isConnected' = d.isConnected
           /\ cancelReconnect' = d.cancelReconnect
           /\ clientConnected' = d.clientConnected
           /\ loops' = [l \in Loops |->
                           [loops[l] EXCEPT !.cancelled = d.cancelled[l]]]
    /\ closed' = TRUE
    /\ UNCHANGED <<mu, storeID, evConnected, evDisconnected, callers>>


\* ------------------------------------------------------------- middleware

\* client identities (getClientIP)
\* where a request comes from: the connection's address (r.RemoteAddr, host
\* and port) and the X-Forwarded-For and X-Real-IP headers; one client on two
\* connections, and the same client behind a proxy
Origins ==
    {[RemoteAddr |-> <<"10.0.0.1", 50000>>, xff |-> <<>>, xri |-> ""],
     [RemoteAddr |-> <<"10.0.0.1", 50001>>, xff |-> <<>>, xri |-> ""],
     [RemoteAddr |-> <<"10.0.0.9", 40000>>, xff |-> <<"10.0.0.1", "10.0.0.9">>,
      xri |-> ""]}

\* getClientIP (lines 308-327): the first entry of X-Forwarded-For, else
\* X-Real-IP, else r.RemoteAddr as it is, port included
getClientIP(r) ==
    IF r.origin.xff # <<>> THEN <<Head(r.origin.xff)>>
    ELSE IF r.origin.xri # "" THEN <<r.origin.xri>>
    ELSE r.origin.RemoteAddr

\* the address of the client that sent r: the host part of what getClientIP
\* returns
ClientIP(r) == getClientIP(r)[1]

\* the routes of Server.Start (server.go 39-44)
Paths == {"/health", "/contacts", "/groups", "/send",
          "/webhook/gitea", "/webhook/github"}
\* X-API-Key: absent, a configured key, a key that is not configured
Keys == {"", "key-valid", "key-other"}

\* m.apiKeys (SetAPIKeys)
apiKeys == {"key-valid"}

\* requests other than CORS preflights: r.Method is not OPTIONS
\* key is the X-API-Key header, query the api_key query parameter
Requests == [origin : Origins, path : Paths, key : Keys, query : Keys]

\* the keys of rl.clients: the strings getClientIP returns
Identities == {getClientIP(r) : r \in Requests}
\* the clients behind them
ClientIPs == {ClientIP(r) : r \in Requests}

NoBucket == [tokens |-> -1, lastRefill |-> -1]

\* goroutines serving requests at the same time, each inside Allow
Procs == {"r1", "r2", "r3"}
IdleAllower == [pc |-> "idle", clientIP |-> <<>>, t |-> 0, elapsed |-> 0,
                result |-> "none", window |-> -1]
NoRequest == [seq |-> 0, served |-> FALSE]

HTTPInit ==
    /\ clients = [ip \in Identities |-> NoBucket]
    /\ now = 0
    /\ admitted = [ip \in Identities |-> [t \in 0..MaxTime |-> 0]]
    /\ lastReq = NoRequest
    /\ arrived = [ip \in ClientIPs |-> 0]
    /\ rlMutex = "free"
    /\ allowers = [p \in Procs |-> IdleAllower]
    /\ granted = [ip \in Identities |-> [t \in 0..MaxTime |-> 0]]

\* Allow whose refill adds one token instead of resetting the bucket
Allow_Incremental(table, clientIP, t) ==
    LET bucket == IF table[clientIP] = NoBucket
                  THEN [tokens |-> requestsPerMinute, lastRefill |-> t]
                  ELSE table[clientIP]
        elapsed == t - bucket.lastRefill
        filled == IF elapsed >= windowSize
                  THEN [tokens |-> IF bucket.tokens < requestsPerMinute
                                   THEN bucket.tokens + 1 ELSE bucket.tokens,
                        lastRefill |-> t]
                  ELSE bucket
        ok == filled.tokens > 0
        spent == IF ok THEN [filled EXCEPT !.tokens = filled.tokens - 1]
                       ELSE filled
    IN  [ok |-> ok, table |-> [table EXCEPT ![clientIP] = spent]]

\* Allow that stamps the refill time on every call, a denied one included
Allow_StampOnDenial(table, clientIP, t) ==
    LET bucket == IF table[clientIP] = NoBucket
                  THEN [tokens |-> requestsPerMinute, lastRefill |-> t]
                  ELSE table[clientIP]
        elapsed == t - bucket.lastRefill
        filled == IF elapsed >= windowSize
                  THEN [tokens |-> requestsPerMinute, lastRefill |-> t]
                  ELSE bucket
        ok == filled.tokens > 0
        spent == IF ok THEN [filled EXCEPT !.tokens = filled.tokens - 1]
                       ELSE [filled EXCEPT !.lastRefill = t]
    IN  [ok |-> ok, table |-> [table EXCEPT ![clientIP] = spent]]

\* Allow that hands out a token without taking it from the bucket
Allow_NoConsume(table, clientIP, t) ==
    LET bucket == IF table[clientIP] = NoBucket
                  THEN [tokens |-> requestsPerMinute, lastRefill |-> t]
                  ELSE table[clientIP]
        elapsed == t - bucket.lastRefill
        filled == IF elapsed >= windowSize
                  THEN [tokens |-> requestsPerMinute, lastRefill |-> t]
                  ELSE bucket
    IN  [ok |-> filled.tokens > 0, table |-> [table EXCEPT ![clientIP] = filled]]

\* RateLimiter.Allow (lines 273-305), under rl.mutex from start to end: the
\* result and the table it leaves
Allow(table, clientIP, t) ==
    LET bucket == IF table[clientIP] = NoBucket
                  THEN [tokens |-> requestsPerMinute, lastRefill |-> t]
                  ELSE table[clientIP]
        elapsed == t - bucket.lastRefill
        filled == IF elapsed >= windowSize
                  THEN [tokens |-> requestsPerMinute, lastRefill |-> t]
                  ELSE bucket
        ok == filled.tokens > 0
        spent == IF ok THEN [filled EXCEPT !.tokens = filled.tokens - 1]
                       ELSE filled
    IN  [ok |-> ok, table |-> [table EXCEPT ![clientIP] = spent]]

\* Allow step by step, for calls that run at the same time.

\* RateLimit calls rl.Allow(clientIP)
AllowCall(p, clientIP) ==
    /\ allowers[p].pc = "idle"
    /\ allowers' = [allowers EXCEPT ![p] =
                       [IdleAllower EXCEPT !.pc = "lock",
                                           !.clientIP = clientIP]]
    /\ UNCHANGED <<clients, rlMutex, granted>>

\* Allow, had it not taken rl.mutex
AllowLock_NoMutex(p) ==
    /\ allowers[p].pc = "lock"
    /\ allowers' = [allowers EXCEPT ![p].pc = "lookup"]
    /\ UNCHANGED <<clients, rlMutex, granted>>

\* line 274: rl.mutex.Lock()
AllowLock(p) ==
    /\ allowers[p].pc = "lock"
    /\ rlMutex = "free"
    /\ rlMutex' = p
    /\ allowers' = [allowers EXCEPT ![p].pc = "lookup"]
    /\ UNCHANGED <<clients, granted>>

\* lines 277-287: the lookup, the creation of a missing bucket, and
\* bucket.mutex.Lock() (never contended: it is taken under rl.mutex)
AllowLookup(p) ==
    /\ allowers[p].pc = "lookup"
    /\ clients' = IF clients[allowers[p].clientIP] = NoBucket
                  THEN [clients EXCEPT ![allowers[p].clientIP] =
                           [tokens |-> requestsPerMinute, lastRefill |-> now]]
                  ELSE clients
    /\ allowers' = [allowers EXCEPT ![p].pc = "elapsed"]
    /\ UNCHANGED <<rlMutex, granted>>

\* lines 290-291: time.Now() and the time since the last refill
AllowElapsed(p) ==
    /\ allowers[p].pc = "elapsed"
    /\ allowers' = [allowers EXCEPT
                       ![p].pc = "refill",
                       ![p].t = now,
                       ![p].elapsed =
                           now - clients[allowers[p].clientIP].lastRefill]
    /\ UNCHANGED <<clients, rlMutex, granted>>

\* lines 293-296: the refill
AllowRefill(p) ==
    /\ allowers[p].pc = "refill"
    /\ clients' = IF allowers[p].elapsed >= windowSize
                  THEN [clients EXCEPT ![allowers[p].clientIP] =
                           [tokens |-> requestsPerMinute,
                            lastRefill |-> allowers[p].t]]
                  ELSE clients
    /\ allowers' = [allowers EXCEPT ![p].pc = "check"]
    /\ UNCHANGED <<rlMutex, granted>>

\* the check, had it let every call through
AllowCheck_NoTest(p) ==
    /\ allowers[p].pc = "check"
    /\ allowers' = [allowers EXCEPT
                       ![p].pc = "take",
                       ![p].window = clients[allowers[p].clientIP].lastRefill]
    /\ UNCHANGED <<clients, rlMutex, granted>>

\* line 299: if bucket.tokens > 0
AllowCheck(p) ==
    /\ allowers[p].pc = "check"
    /\ allowers' = [allowers EXCEPT
                       ![p].pc = IF clients[allowers[p].clientIP].tokens > 0
                                 THEN "take" ELSE "unlock",
                       ![p].result = IF clients[allowers[p].clientIP].tokens > 0
                                     THEN "none" ELSE "denied",
                       ![p].window = clients[allowers[p].clientIP].lastRefill]
    /\ UNCHANGED <<clients, rlMutex, granted>>

\* the decrement, had the limiter kept one count for all its clients
AllowTake_SharedCount(p) ==
    /\ allowers[p].pc = "take"
    /\ LET ip == allowers[p].clientIP
       IN  /\ clients' = [c \in DOMAIN clients |->
                             IF clients[c] = NoBucket THEN NoBucket
                             ELSE [clients[c] EXCEPT !.tokens = @ - 1]]
           /\ granted' = [granted EXCEPT ![ip][clients[ip].lastRefill] = @ + 1]
    /\ allowers' = [allowers EXCEPT ![p].pc = "unlock",
                                    ![p].result = "admitted"]
    /\ UNCHANGED rlMutex

\* lines 300-301: bucket.tokens--, return true
AllowTake(p) ==
    /\ allowers[p].pc = "take"
    /\ LET ip == allowers[p].clientIP
       IN  /\ clients' = [clients EXCEPT ![ip].tokens = @ - 1]
           /\ granted' = [granted EXCEPT ![ip][clients[ip].lastRefill] = @ + 1]
    /\ allowers' = [allowers EXCEPT ![p].pc = "unlock",
                                    ![p].result = "admitted"]
    /\ UNCHANGED rlMutex

\* the deferred unlocks, and Allow returns
AllowUnlock(p) ==
    /\ allowers[p].pc = "unlock"
    /\ rlMutex' = IF rlMutex = p THEN "free" ELSE rlMutex
    /\ allowers' = [allowers EXCEPT ![p] = IdleAllower]
    /\ UNCHANGED <<clients, granted>>

\* Server.Start, lines 47-52: each wrapper encloses the ones before it, so the
\* request meets them in the reverse order of the assignments
Chain == <<"APIKeyAuth", "RateLimit", "CORS", "Security", "Logging", "Recovery">>

\* APIKeyAuth, line 341
AuthExempt(path) == path \in {"/health", "/webhook/gitea", "/webhook/github"}

\* isValidAPIKey, had it accepted every key that is not empty
isValidAPIKey_NonEmpty(key) == key # ""

\* isValidAPIKey
isValidAPIKey(key) == key \in apiKeys

\* APIKeyAuth, lines 346-349: the header, and the query parameter when the
\* header is empty
APIKeyOf(r) == IF r.key # "" THEN r.key ELSE r.query

\* One request through the middlewares ws, outermost first: the response, what
\* was called on the way, and the bucket table it leaves
RECURSIVE Serve(_, _, _, _)
Serve(ws, r, table, t) ==
    IF ws = <<>>
    THEN [status |-> 200, handler |-> TRUE, limited |-> FALSE,
          allowed |-> FALSE, retryAfter |-> FALSE, table |-> table]
    ELSE LET inner == Serve(Tail(ws), r, table, t)
             stop(code) == [status |-> code, handler |-> FALSE,
                            limited |-> FALSE, allowed |-> FALSE,
                            retryAfter |-> FALSE, table |-> table]
         IN  CASE Head(ws) = "APIKeyAuth" ->
                    IF AuthExempt(r.path) THEN inner
                    ELSE IF APIKeyOf(r) = "" THEN stop(401)
                    ELSE IF ~isValidAPIKey(APIKeyOf(r)) THEN stop(401)
                    ELSE inner
               [] Head(ws) = "RateLimit" ->
                    LET a == Allow(table, getClientIP(r), t)
                    IN  IF ~a.ok
                        THEN [stop(429) EXCEPT !.limited = TRUE,
                                               !.retryAfter = TRUE,
                                               !.table = a.table]
                        ELSE [Serve(Tail(ws), r, a.table, t) EXCEPT
                                 !.limited = TRUE, !.allowed = TRUE]
               [] OTHER -> inner

\* the client has no token left and its window has not elapsed
OverLimit(table, clientIP, t) ==
    /\ table[clientIP] # NoBucket
    /\ table[clientIP].tokens = 0
    /\ t - table[clientIP].lastRefill < windowSize

\* http.Server hands one request to the chain
ServeHTTP(r) ==
    LET resp == Serve(Chain, r, clients, now)
    IN  /\ clients' = resp.table
        /\ admitted' = IF resp.allowed
                       THEN [admitted EXCEPT ![getClientIP(r)][now] = @ + 1]
                       ELSE admitted
        /\ lastReq' = [seq |-> 1 - lastReq.seq, served |-> TRUE, req |-> r,
                       status |-> resp.status, handler |-> resp.handler,
                       limited |-> resp.limited, allowed |-> resp.allowed,
                       retryAfter |-> resp.retryAfter,
                       overLimit |-> OverLimit(clients, getClientIP(r), now)]
        /\ UNCHANGED now

\* history: r is one more /send request of its client at this tick
Arrive(r) ==
    arrived' = IF r.path = "/send" /\ arrived[ClientIP(r)] <= requestsPerMinute
               THEN [arrived EXCEPT ![ClientIP(r)] = @ + 1]
               ELSE arrived

Tick ==
    /\ now < MaxTime
    /\ now' = now + 1
    /\ arrived' = [ip \in ClientIPs |-> 0]
    /\ UNCHANGED <<clients, admitted, lastReq>>

\* ---------------------------------------------------------------- webhook

\* Strings the handler takes apart are sequences of tokens; "" is <<>>.
\* hex.EncodeToString(HMAC-SHA256(key, payload)), taken to be collision-free
HMACHex(key, payload) == <<"hmac", key, payload>>

HasPrefix(s, prefix) ==
    /\ Len(s) >= Len(prefix)
    /\ SubSeq(s, 1, Len(prefix)) = prefix

TrimPrefix(s, prefix) ==
    IF HasPrefix(s, prefix) THEN SubSeq(s, Len(prefix) + 1, Len(s)) ELSE s

\* keys a sender may sign with, and the secrets a deployment may configure
SenderKeys == {"s3cret", "guess"}
ConfiguredSecrets == {"", "s3cret"}

\* GiteaWebhook builds the first shape; the second is a provider with a
\* signature prefix ("sha256=" for GitHub)
WebhookConfigs ==
    { [Provider |-> "Gitea", SignaturePrefix |-> <<>>, Secret |-> s] :
          s \in ConfiguredSecrets }
    \cup
    { [Provider |-> "GitHub", SignaturePrefix |-> <<"sha256=">>, Secret |-> s] :
          s \in ConfiguredSecrets }

\* request bodies, and what json.Unmarshal and the payload's getters give
Bodies == {"not-json", "push-0", "push-1", "push-6"}

parsePayload(body) ==
    CASE body = "push-0" ->
            [err |-> FALSE, commits |-> 0, compareURL |-> TRUE, added |-> 0,
             modified |-> 0, removed |-> 0]
      [] body = "push-1" ->
            [err |-> FALSE, commits |-> 1, compareURL |-> TRUE, added |-> 1,
             modified |-> 0, removed |-> 1]
      [] body = "push-6" ->
            [err |-> FALSE, commits |-> 6, compareURL |-> FALSE, added |-> 0,
             modified |-> 0, removed |-> 0]
      [] OTHER ->
            [err |-> TRUE, commits |-> 0, compareURL |-> FALSE, added |-> 0,
             modified |-> 0, removed |-> 0]

\* the signature headers a sender may put on a request with this body
Headers(body) ==
    {<<>>} \cup
    { p \o HMACHex(k, b) : p \in {<<>>, <<"sha256=">>}, k \in SenderKeys,
                           b \in {body, "not-json"} }

\* verifyWebhookSignature that stops after the prefix check
verifyWebhookSignature_PrefixOnly(payload, headerSignature, config) ==
    IF config.Secret = "" THEN TRUE
    ELSE HasPrefix(headerSignature, config.SignaturePrefix)

\* verifyWebhookSignature that compares the header as received, prefix included
verifyWebhookSignature_NoTrim(payload, headerSignature, config) ==
    IF config.Secret = "" THEN TRUE
    ELSE IF /\ config.SignaturePrefix # <<>>
            /\ ~HasPrefix(headerSignature, config.SignaturePrefix)
         THEN FALSE
    ELSE headerSignature = HMACHex(config.Secret, payload)

\* verifyWebhookSignature, lines 487-510
verifyWebhookSignature(payload, headerSignature, config) ==
    IF config.Secret = "" THEN TRUE
    ELSE IF /\ config.SignaturePrefix # <<>>
            /\ ~HasPrefix(headerSignature, config.SignaturePrefix)
         THEN FALSE
    ELSE LET providedSignature ==
                 IF config.SignaturePrefix # <<>>
                 THEN TrimPrefix(headerSignature, config.SignaturePrefix)
                 ELSE headerSignature
             expectedSignature == HMACHex(config.Secret, payload)
         IN  providedSignature = expectedSignature

\* formatWebhookMessage, lines 513-612: the message as its lines
formatWebhookMessage(payload, provider) ==
    LET head == <<"title", "fence", "pusher", "branch", "count", "fence">>
        shown == IF payload.commits < 5 THEN payload.commits ELSE 5
        commits == <<"*Commits:*">> \o [i \in 1..shown |-> "commit"] \o
                   (IF payload.commits > 5 THEN <<"more">> ELSE <<>>)
        total == payload.added + payload.modified + payload.removed
        files == IF total > 0
                 THEN <<"*File Changes:*">> \o
                      (IF payload.added > 0
                       THEN <<"added">> \o [i \in 1..payload.added |-> "file"]
                       ELSE <<>>) \o
                      (IF payload.modified > 0
                       THEN <<"modified">> \o
                            [i \in 1..payload.modified |-> "file"]
                       ELSE <<>>) \o
                      (IF payload.removed > 0
                       THEN <<"removed">> \o
                            [i \in 1..payload.removed |-> "file"]
                       ELSE <<>>)
                 ELSE <<>>
    IN  IF payload.commits = 0 THEN head
        ELSE IF provider = "GitHub"
        THEN head \o commits \o
             (IF payload.compareURL THEN <<"compare">> ELSE <<>>) \o files
        ELSE head \o commits

IdleWebhook == [pc |-> "idle", calls |-> <<>>, resp |-> "none"]

WebhookInit == wh = IdleWebhook

\* the handler called fn on the request it is serving
Called(fn) == \E i \in DOMAIN wh.calls : wh.calls[i] = fn

\* writeAppError / writeJSON, and the handler returns
Respond(w, code, calls) == [w EXCEPT !.pc = "done", !.resp = code, !.calls = calls]

\* a provider endpoint hands a request to handleWebhook
WebhookReceive(config, header, body, readOK) ==
    /\ wh.pc \in {"idle", "done"}
    /\ wh' = [pc |-> "header", config |-> config, header |-> header,
              body |-> body, readOK |-> readOK, calls |-> <<>>,
              resp |-> "none"]
    /\ UNCHANGED sessionVars

\* lines 427-455: the header check, io.ReadAll, the signature check and the
\* parse; none of them touches the session
WebhookAdmit ==
    /\ wh.pc = "header"
    /\ wh' =
         IF wh.header = <<>> THEN Respond(wh, "UNAUTHORIZED", <<>>)
         ELSE IF ~wh.readOK
         THEN Respond(wh, "INVALID_REQUEST", <<"ReadAll">>)
         ELSE IF ~verifyWebhookSignature(wh.body, wh.header, wh.config)
         THEN Respond(wh, "UNAUTHORIZED",
                      <<"ReadAll", "verifyWebhookSignature">>)
         ELSE IF parsePayload(wh.body).err
         THEN Respond(wh, "INVALID_REQUEST",
                      <<"ReadAll", "verifyWebhookSignature", "parsePayload">>)
         ELSE [wh EXCEPT !.pc = "isConnected",
                         !.calls = <<"ReadAll", "verifyWebhookSignature",
                                     "parsePayload">>]
    /\ UNCHANGED sessionVars

\* line 458: h.waClient.IsConnected(), under RLock
WebhookIsConnected ==
    /\ wh.pc = "isConnected"
    /\ CanRLock
    /\ wh' = [wh EXCEPT !.pc = IF IsConnected THEN "format" ELSE "ensure",
                        !.calls = Append(@, "IsConnected")]
    /\ UNCHANGED sessionVars

\* line 460: h.waClient.EnsureConnected(ctx) is called
WebhookEnsureConnected ==
    /\ wh.pc = "ensure"
    /\ \E c \in Handlers : CallEnsureConnected(c)
    /\ wh' = [wh EXCEPT !.pc = "connecting",
                        !.calls = Append(@, "EnsureConnected")]

\* handleWebhook, had it gone on after a failed EnsureConnected
WebhookEnsured_IgnoreError ==
    /\ wh.pc = "connecting"
    /\ \E c \in Handlers :
          /\ callers[c].pc = "idle"
          /\ wh' = [wh EXCEPT !.pc = "format"]
    /\ UNCHANGED sessionVars

\* lines 460-464: EnsureConnected returned
WebhookEnsured ==
    /\ wh.pc = "connecting"
    /\ \E c \in Handlers :
          /\ callers[c].pc = "idle"
          /\ wh' = IF callers[c].ret = "ok"
                   THEN [wh EXCEPT !.pc = "format"]
                   ELSE Respond(wh, "CONNECTION_FAILED", wh.calls)
    /\ UNCHANGED sessionVars

\* lines 468-472
WebhookFormat ==
    /\ wh.pc = "format"
    /\ LET message == formatWebhookMessage(parsePayload(wh.body),
                                           wh.config.Provider)
           calls == Append(wh.calls, "formatWebhookMessage")
       IN  wh' = IF message = <<>>
                 THEN Respond(wh, "INVALID_REQUEST", calls)
                 ELSE [wh EXCEPT !.pc = "send", !.calls = calls]
    /\ UNCHANGED sessionVars

\* lines 476-483: SendText; w.Client.SendMessage fails without a socket and
\* may fail with one
WebhookSendText ==
    /\ wh.pc = "send"
    /\ \E sent \in BOOLEAN :
          /\ sent => clientConnected
          /\ wh' = Respond(wh, IF sent THEN "OK" ELSE "MESSAGE_SEND_FAILED",
                           Append(wh.calls, "SendText"))
    /\ UNCHANGED sessionVars

\* ------------------------------------------------------------------ /send

\* a decoded "to": the digits before the "@", whether a ":digits" suffix
\* follows them, and the server after the "@"; NoJID is the empty string
NoJID == [digits |-> 0, suffix |-> FALSE, server |-> ""]

Tos == {NoJID,
        [digits |-> 13, suffix |-> FALSE, server |-> "s.whatsapp.net"],
        [digits |-> 5, suffix |-> FALSE, server |-> "s.whatsapp.net"],
        [digits |-> 5, suffix |-> TRUE, server |-> "lid"]}

\* the length of a decoded "message" (none of the samples has surrounding
\* whitespace, null bytes or runs of newlines, so SanitizeMessage keeps it)
Messages == {0, 2, 4097}

\* a request body: whether json Decode accepts it, and what it decodes to
SendRequests == [decodes : BOOLEAN, To : Tos, Message : Messages]

\* IsValidJID: the five patterns, in the code's order
IsValidJID(jid) ==
    \/ /\ jid.digits \in 10..15
       /\ ~jid.suffix
       /\ jid.server = "s.whatsapp.net"
    \/ /\ jid.digits >= 1
       /\ ~jid.suffix
       /\ jid.server = "g.us"
    \/ /\ jid.digits \in 10..15
       /\ ~jid.suffix
       /\ jid.server = "c.us"
    \/ /\ jid.digits >= 1
       /\ ~jid.suffix
       /\ jid.server = "lid"
    \/ /\ jid.digits >= 1
       /\ jid.suffix
       /\ jid.server = "lid"

\* the validation, had it not limited the length of the message
ValidateSendMessageRequest_NoLimit(req) ==
    IF req.To = NoJID THEN "VALIDATION_FAILED"
    ELSE IF ~IsValidJID(req.To) THEN "INVALID_JID"
    ELSE IF req.Message = 0 THEN "VALIDATION_FAILED"
    ELSE "none"

\* ValidateSendMessageRequest: the error code, or "none"
ValidateSendMessageRequest(req) ==
    IF req.To = NoJID THEN "VALIDATION_FAILED"
    ELSE IF ~IsValidJID(req.To) THEN "INVALID_JID"
    ELSE IF req.Message = 0 THEN "VALIDATION_FAILED"
    ELSE IF req.Message > 4096 THEN "VALIDATION_FAILED"
    ELSE "none"

SendInit == send = IdleWebhook

\* the router hands a /send request to SendMessage; before records the flag
\* and the guard as the request finds them
SendReceive(req) ==
    /\ send.pc \in {"idle", "done"}
    /\ send' = [pc |-> "decode", req |-> req, calls |-> <<>>,
                resp |-> "none",
                before |-> [isConnected |-> isConnected,
                            cancelReconnect |-> cancelReconnect]]
    /\ UNCHANGED sessionVars

\* lines 58-71: Decode, ValidateSendMessageRequest, SanitizeMessage; none of
\* them touches the session
SendAdmit ==
    /\ send.pc = "decode"
    /\ send' =
         IF ~send.req.decodes
         THEN Respond(send, "INVALID_REQUEST", <<"Decode">>)
         ELSE IF ValidateSendMessageRequest(send.req) # "none"
         THEN Respond(send, ValidateSendMessageRequest(send.req),
                      <<"Decode", "ValidateSendMessageRequest">>)
         ELSE [send EXCEPT !.pc = "isConnected",
                           !.calls = <<"Decode", "ValidateSendMessageRequest",
                                       "SanitizeMessage">>]
    /\ UNCHANGED sessionVars

\* line 74: h.waClient.IsConnected(), under RLock
SendIsConnected ==
    /\ send.pc = "isConnected"
    /\ CanRLock
    /\ send' = [send EXCEPT !.pc = IF IsConnected THEN "send" ELSE "ensure",
                            !.calls = Append(@, "IsConnected")]
    /\ UNCHANGED sessionVars

\* line 76: h.waClient.EnsureConnected(ctx) is called
SendEnsureConnected ==
    /\ send.pc = "ensure"
    /\ \E c \in Senders : CallEnsureConnected(c)
    /\ send' = [send EXCEPT !.pc = "connecting",
                            !.calls = Append(@, "EnsureConnected")]

\* lines 76-80: EnsureConnected returned
SendEnsured ==
    /\ send.pc = "connecting"
    /\ \E c \in Senders :
          /\ callers[c].pc = "idle"
          /\ send' = IF callers[c].ret = "ok"
                     THEN [send EXCEPT !.pc = "send"]
                     ELSE Respond(send, "CONNECTION_FAILED", send.calls)
    /\ UNCHANGED sessionVars

\* SendMessage on a failed SendText, had it marked the session disconnected
SendSendText_ForceDisconnected ==
    /\ send.pc = "send"
    /\ \E sent \in BOOLEAN :
          /\ sent => clientConnected
          /\ send' = Respond(send,
                             IF sent THEN "OK" ELSE "MESSAGE_SEND_FAILED",
                             Append(send.calls, "SendText"))
          /\ isConnected' = (sent /\ isConnected)
    /\ UNCHANGED <<cancelReconnect, mu, clientConnected, storeID,
                   evConnected, evDisconnected, loops, callers, closed>>

\* lines 89-109: SendText (app/whatsapp.go 291-308); ParseJID or
\* w.Client.SendMessage may fail, and SendMessage fails without a socket;
\* 202 on success, MESSAGE_SEND_FAILED otherwise
SendSendText ==
    /\ send.pc = "send"
    /\ \E sent \in BOOLEAN :
          /\ sent => clientConnected
          /\ send' = Respond(send,
                             IF sent THEN "OK" ELSE "MESSAGE_SEND_FAILED",
                             Append(send.calls, "SendText"))
    /\ UNCHANGED sessionVars

\* ---------------------------------------------------- /contacts, /groups

QueryInit == query = IdleWebhook

\* the two read-only routes and the client method each one calls
QueryRoutes == {"/contacts", "/groups"}
QueryMethod(route) ==
    IF route = "/contacts" THEN "GetContacts" ELSE "GetJoinedGroups"

\* the router hands the request to GetContacts or GetGroups; h.waClient is
\* the client handlers.New was given, never nil
QueryReceive(route) ==
    /\ query.pc \in {"idle", "done"}
    /\ query' = [pc |-> "call", route |-> route, calls |-> <<>>,
                 resp |-> "none", connected |-> FALSE]
    /\ UNCHANGED sessionVars

\* lines 21-29 and 39-47: the handler calls the client method at once;
\* GetContacts reads w.Client.Store.Contacts and GetJoinedGroups asks the
\* server, which fails without a socket; connected records IsConnected() as
\* it is at the call
QueryCall ==
    /\ query.pc = "call"
    /\ \E ok \in BOOLEAN :
          /\ (ok /\ query.route = "/groups") => clientConnected
          /\ query' = [Respond(query, IF ok THEN "OK" ELSE "INTERNAL_ERROR",
                               Append(query.calls, QueryMethod(query.route)))
                         EXCEPT !.connected = IsConnected]
    /\ UNCHANGED sessionVars

\* ------------------------------------------------------------ error kinds

\* the ErrorCode constants of internal/errors
ErrorCodes ==
    {"INVALID_REQUEST", "VALIDATION_FAILED", "UNAUTHORIZED", "FORBIDDEN",
     "NOT_FOUND", "TOO_MANY_REQUESTS", "CLIENT_NOT_CONNECTED",
     "CONNECTION_FAILED", "MESSAGE_SEND_FAILED", "INVALID_JID",
     "INTERNAL_ERROR", "SERVICE_UNAVAILABLE", "DATABASE_ERROR"}

\* getStatusCodeForError: the switch, its default included
getStatusCodeForError(code) ==
    CASE code \in {"INVALID_REQUEST", "VALIDATION_FAILED", "INVALID_JID"} -> 400
      [] code = "UNAUTHORIZED" -> 401
      [] code = "FORBIDDEN" -> 403
      [] code = "NOT_FOUND" -> 404
      [] code = "TOO_MANY_REQUESTS" -> 429
      [] code \in {"CLIENT_NOT_CONNECTED", "SERVICE_UNAVAILABLE"} -> 503
      [] code \in {"INTERNAL_ERROR", "CONNECTION_FAILED",
                   "MESSAGE_SEND_FAILED", "DATABASE_ERROR"} -> 500
      [] OTHER -> 500

\* errors.New
New(code, message) ==
    [Code |-> code, Message |-> message,
     StatusCode |-> getStatusCodeForError(code), Err |-> "nil"]

\* errors.Wrap, had it left StatusCode at its zero value
Wrap_NoStatus(err, code, message) ==
    [Code |-> code, Message |-> message, StatusCode |-> 0, Err |-> err]

\* errors.Wrap
Wrap(err, code, message) ==
    [Code |-> code, Message |-> message,
     StatusCode |-> getStatusCodeForError(code), Err |-> err]

\* what the handlers pass to the constructors
ErrorMessages == {"Invalid request body", "Invalid webhook signature"}
Causes == {"io timeout", "not logged in"}

\* what the constructors return: errors.New with a code of the caller's
\* choice (ValidationError, InvalidRequest and the handlers' Unauthorized
\* among them), and the constructors with a fixed code and message
AppErrors ==
    {New(code, message) : code \in ErrorCodes, message \in ErrorMessages}
    \cup {New("CLIENT_NOT_CONNECTED", "WhatsApp client is not connected")}
    \cup {New("INVALID_JID", "Invalid WhatsApp JID")}
    \cup {Wrap(err, "CONNECTION_FAILED", "Failed to connect to WhatsApp") :
            err \in Causes}
    \cup {Wrap(err, "MESSAGE_SEND_FAILED", "Failed to send message") :
            err \in Causes}
    \cup {Wrap(err, "INTERNAL_ERROR", "Internal server error") :
            err \in Causes}
    \cup {Wrap(err, "DATABASE_ERROR", "Database operation failed") :
            err \in Causes}

NoResponse == [written |-> FALSE]

ErrorsInit == written = NoResponse

\* writeAppError: the body carries Code and Message, the header StatusCode
writeAppError(appErr) ==
    /\ written' = [written |-> TRUE, code |-> appErr.Code,
                   error |-> appErr.Message, status |-> appErr.StatusCode]
    /\ UNCHANGED <<sessionVars, httpVars, wh, send, status, query, evStreamError, reconnectOwed>>

\* ----------------------------------------------------------- status readers

StatusInit == status = IdleStatus

\* the two readers of the session's status
StatusOps == {"IsConnected", "GetConnectionStatus"}

\* a goroutine (the /health handler, a request handler) calls a reader
StatusCall(op) ==
    /\ status.pc \in {"idle", "done"}
    /\ status' = [pc |-> "rlock", op |-> op]
    /\ UNCHANGED <<sessionVars, httpVars, wh, send, query, written, evStreamError, reconnectOwed>>

\* IsConnected(), lines 329-335: RLock, the two reads, RUnlock
StatusIsConnected ==
    /\ status.pc = "rlock"
    /\ status.op = "IsConnected"
    /\ CanRLock
    /\ status' = [pc |-> "done", op |-> status.op, result |-> IsConnected]
    /\ UNCHANGED <<sessionVars, httpVars, wh, send, query, written, evStreamError, reconnectOwed>>

\* GetConnectionStatus(), lines 349-353: RLock and the map's first two
\* entries; "connected" makes its own call of w.Client.IsConnected()
StatusSnapshotBegin ==
    /\ status.pc = "rlock"
    /\ status.op = "GetConnectionStatus"
    /\ CanRLock
    /\ status' = [pc |-> "reading", op |-> status.op,
                  connected |-> isConnected /\ clientConnected,
                  internal_state |-> isConnected]
    /\ UNCHANGED <<sessionVars, httpVars, wh, send, query, written, evStreamError, reconnectOwed>>

\* GetConnectionStatus(), lines 355-358: the second call of
\* w.Client.IsConnected(), Store.ID, the cancel handle; RUnlock
StatusSnapshotEnd ==
    /\ status.pc = "reading"
    /\ status' = [pc |-> "done", op |-> status.op,
                  connected |-> status.connected,
                  internal_state |-> status.internal_state,
                  client_state |-> clientConnected,
                  has_session |-> storeID,
                  reconnection_active |-> cancelReconnect # "nil"]
    /\ UNCHANGED <<sessionVars, httpVars, wh, send, query, written, evStreamError, reconnectOwed>>

\* --------------------------------------------------------- specifications

SessionNext(S, budget) ==
    \/ TransportDrop /\ UNCHANGED <<httpVars, handlerVars>>
    \/ HandleConnected /\ UNCHANGED <<httpVars, handlerVars>>
    \/ HandleDisconnected(S) /\ UNCHANGED <<httpVars, handlerVars>>
    \/ \E l \in S : LoopStart(l) /\ UNCHANGED <<httpVars, handlerVars>>
    \/ \E l \in S : LoopCancelled(l) /\ UNCHANGED <<httpVars, handlerVars>>
    \/ \E l \in S : LoopTimer(l) /\ UNCHANGED <<httpVars, handlerVars>>
    \/ \E l \in S : LoopProto(l) /\ UNCHANGED <<httpVars, handlerVars>>
    \/ \E l \in S : LoopSetConnected(l) /\ UNCHANGED <<httpVars, handlerVars>>
    \/ \E l \in S : LoopConnectOK(l) /\ UNCHANGED <<httpVars, handlerVars>>
    \/ \E l \in S : LoopConnectFail(l, budget) /\ UNCHANGED <<httpVars, handlerVars>>
    \/ \E l \in S : LoopExit(l) /\ UNCHANGED <<httpVars, handlerVars>>
    \/ \E c \in Callers : CallConnect(c) /\ UNCHANGED <<httpVars, handlerVars>>
    \/ \E c \in Callers : CallEnsureConnected(c) /\ UNCHANGED <<httpVars, handlerVars>>
    \/ \E c \in Callers : ConnectLock(c) /\ UNCHANGED <<httpVars, handlerVars>>
    \/ \E c \in Callers : ConnectOK(c) /\ UNCHANGED <<httpVars, handlerVars>>
    \/ \E c \in Callers : ConnectSetFlag(c) /\ UNCHANGED <<httpVars, handlerVars>>
    \/ \E c \in Callers : ConnectFail(c) /\ UNCHANGED <<httpVars, handlerVars>>
    \/ \E c \in Callers : ConnectQR(c) /\ UNCHANGED <<httpVars, handlerVars>>
    \/ \E c \in Callers : QRFail(c) /\ UNCHANGED <<httpVars, handlerVars>>
    \/ \E c \in Callers : QRSuccess(c) /\ UNCHANGED <<httpVars, handlerVars>>
    \/ \E c \in Callers : QRClosed(c) /\ UNCHANGED <<httpVars, handlerVars>>
    \/ Disconnect /\ UNCHANGED <<httpVars, handlerVars>>

\* the session with the middleware at rest
\* no request in flight
HandlersInit ==
    /\ WebhookInit /\ SendInit /\ StatusInit /\ QueryInit /\ ErrorsInit
    /\ evStreamError = FALSE
    /\ reconnectOwed = FALSE

Init == SessionInit /\ HTTPInit /\ HandlersInit

Next == SessionNext(Loops, MaxFailures)

Spec == Init /\ [][Next]_vars

\* one reconnection goroutine at a time, MaxRetries failed connects
NextBackoff == SessionNext({"L1"}, MaxRetries)

SpecBackoff == Init /\ [][NextBackoff]_vars

\* the session with nobody calling Disconnect: a cancel handle is only ever
\* called by the Connected case of handleConnectionEvents
NextEvents ==
    \/ TransportDrop /\ UNCHANGED <<httpVars, handlerVars>>
    \/ HandleConnected /\ UNCHANGED <<httpVars, handlerVars>>
    \/ HandleDisconnected(Loops) /\ UNCHANGED <<httpVars, handlerVars>>
    \/ \E l \in Loops : LoopStart(l) /\ UNCHANGED <<httpVars, handlerVars>>
    \/ \E l \in Loops : LoopCancelled(l) /\ UNCHANGED <<httpVars, handlerVars>>
    \/ \E l \in Loops : LoopTimer(l) /\ UNCHANGED <<httpVars, handlerVars>>
    \/ \E l \in Loops : LoopProto(l) /\ UNCHANGED <<httpVars, handlerVars>>
    \/ \E l \in Loops : LoopSetConnected(l) /\ UNCHANGED <<httpVars, handlerVars>>
    \/ \E l \in Loops : LoopConnectOK(l) /\ UNCHANGED <<httpVars, handlerVars>>
    \/ \E l \in Loops : LoopConnectFail(l, MaxFailures) /\ UNCHANGED <<httpVars, handlerVars>>
    \/ \E l \in Loops : LoopExit(l) /\ UNCHANGED <<httpVars, handlerVars>>
    \/ \E c \in Callers : CallConnect(c) /\ UNCHANGED <<httpVars, handlerVars>>
    \/ \E c \in Callers : CallEnsureConnected(c) /\ UNCHANGED <<httpVars, handlerVars>>
    \/ \E c \in Callers : ConnectLock(c) /\ UNCHANGED <<httpVars, handlerVars>>
    \/ \E c \in Callers : ConnectOK(c) /\ UNCHANGED <<httpVars, handlerVars>>
    \/ \E c \in Callers : ConnectSetFlag(c) /\ UNCHANGED <<httpVars, handlerVars>>
    \/ \E c \in Callers : ConnectFail(c) /\ UNCHANGED <<httpVars, handlerVars>>
    \/ \E c \in Callers : ConnectQR(c) /\ UNCHANGED <<httpVars, handlerVars>>
    \/ \E c \in Callers : QRFail(c) /\ UNCHANGED <<httpVars, handlerVars>>
    \/ \E c \in Callers : QRSuccess(c) /\ UNCHANGED <<httpVars, handlerVars>>
    \/ \E c \in Callers : QRClosed(c) /\ UNCHANGED <<httpVars, handlerVars>>

SpecEvents == Init /\ [][NextEvents]_vars

\* the middleware chain, the limiter and the clock
\* requests on direct connections, to every path
NextHTTP ==
    \/ \E r \in {q \in Requests : /\ q.origin.xff = <<>>
                                   /\ q.path \in {"/send", "/health"}
                                   /\ q.query = ""} :
          ServeHTTP(r) /\ UNCHANGED <<sessionVars, handlerVars, arrived, limiterVars>>
    \/ Tick /\ UNCHANGED <<sessionVars, handlerVars, limiterVars>>

\* the middleware with the session at rest, a stored credential present
InitHTTP == SessionInit /\ storeID /\ HTTPInit /\ HandlersInit

SpecHTTP == InitHTTP /\ [][NextHTTP]_vars

\* requests to /send, direct and through the proxy, counted as they arrive
NextLimit ==
    \/ \E r \in {q \in Requests : q.path = "/send" /\ q.query = ""} :
          ServeHTTP(r) /\ Arrive(r) /\ UNCHANGED <<sessionVars, handlerVars, limiterVars>>
    \/ Tick /\ UNCHANGED <<sessionVars, handlerVars, limiterVars>>

SpecLimit == InitHTTP /\ [][NextLimit]_vars

\* requests to every route over one connection, with and without the header
\* and the query parameter
NextAuth ==
    \/ \E r \in {q \in Requests : q.origin.RemoteAddr = <<"10.0.0.1", 50000>>} :
          ServeHTTP(r) /\ UNCHANGED <<sessionVars, handlerVars, arrived, limiterVars>>
    \/ Tick /\ UNCHANGED <<sessionVars, handlerVars, limiterVars>>

SpecAuth == InitHTTP /\ [][NextAuth]_vars

\* the goroutines that call Allow while the clock runs
AllowIdentities == {getClientIP(r) : r \in {q \in Requests : q.origin.xff = <<>>}}

NextAllow ==
    \/ \E p \in Procs, ip \in AllowIdentities :
          AllowCall(p, ip) /\ UNCHANGED <<sessionVars, handlerVars, now, admitted, lastReq, arrived>>
    \/ \E p \in Procs : AllowLock(p) /\ UNCHANGED <<sessionVars, handlerVars, now, admitted, lastReq, arrived>>
    \/ \E p \in Procs : AllowLookup(p) /\ UNCHANGED <<sessionVars, handlerVars, now, admitted, lastReq, arrived>>
    \/ \E p \in Procs : AllowElapsed(p) /\ UNCHANGED <<sessionVars, handlerVars, now, admitted, lastReq, arrived>>
    \/ \E p \in Procs : AllowRefill(p) /\ UNCHANGED <<sessionVars, handlerVars, now, admitted, lastReq, arrived>>
    \/ \E p \in Procs : AllowCheck(p) /\ UNCHANGED <<sessionVars, handlerVars, now, admitted, lastReq, arrived>>
    \/ \E p \in Procs : AllowTake(p) /\ UNCHANGED <<sessionVars, handlerVars, now, admitted, lastReq, arrived>>
    \/ \E p \in Procs : AllowUnlock(p) /\ UNCHANGED <<sessionVars, handlerVars, now, admitted, lastReq, arrived>>
    \/ Tick /\ UNCHANGED <<sessionVars, handlerVars, limiterVars>>

SpecAllow == InitHTTP /\ [][NextAllow]_vars

\* every error response: the handlers' through writeAppError, the
\* middleware's through http.Error
NextErrors ==
    \/ \E appErr \in AppErrors : writeAppError(appErr)
    \/ \E r \in {q \in Requests : /\ q.origin.RemoteAddr = <<"10.0.0.1", 50000>>
                                   /\ q.path = "/send"
                                   /\ q.query = ""} :
          ServeHTTP(r) /\ UNCHANGED <<sessionVars, handlerVars, arrived, limiterVars>>
    \/ Tick /\ UNCHANGED <<sessionVars, handlerVars, limiterVars>>

SpecErrors == InitHTTP /\ [][NextErrors]_vars

\* one webhook request at a time against the session: the handler, the
\* Connect it may call, the socket dropping and the Connected event
NextWebhook ==
    \/ \E config \in WebhookConfigs, body \in Bodies, readOK \in BOOLEAN :
          \E header \in Headers(body) :
              WebhookReceive(config, header, body, readOK) /\ UNCHANGED <<httpVars, send, status, query, written, evStreamError, reconnectOwed>>
    \/ WebhookAdmit /\ UNCHANGED <<httpVars, send, status, query, written, evStreamError, reconnectOwed>>
    \/ WebhookIsConnected /\ UNCHANGED <<httpVars, send, status, query, written, evStreamError, reconnectOwed>>
    \/ WebhookEnsureConnected /\ UNCHANGED <<httpVars, send, status, query, written, evStreamError, reconnectOwed>>
    \/ WebhookEnsured /\ UNCHANGED <<httpVars, send, status, query, written, evStreamError, reconnectOwed>>
    \/ WebhookFormat /\ UNCHANGED <<httpVars, send, status, query, written, evStreamError, reconnectOwed>>
    \/ WebhookSendText /\ UNCHANGED <<httpVars, send, status, query, written, evStreamError, reconnectOwed>>
    \/ TransportDrop /\ UNCHANGED <<httpVars, handlerVars>>
    \/ HandleConnected /\ UNCHANGED <<httpVars, handlerVars>>
    \/ \E c \in Handlers : ConnectLock(c) /\ UNCHANGED <<httpVars, handlerVars>>
    \/ \E c \in Handlers : ConnectOK(c) /\ UNCHANGED <<httpVars, handlerVars>>
    \/ \E c \in Handlers : ConnectSetFlag(c) /\ UNCHANGED <<httpVars, handlerVars>>
    \/ \E c \in Handlers : ConnectFail(c) /\ UNCHANGED <<httpVars, handlerVars>>
    \/ \E c \in Handlers : ConnectQR(c) /\ UNCHANGED <<httpVars, handlerVars>>
    \/ \E c \in Handlers : QRFail(c) /\ UNCHANGED <<httpVars, handlerVars>>
    \/ \E c \in Handlers : QRSuccess(c) /\ UNCHANGED <<httpVars, handlerVars>>
    \/ \E c \in Handlers : QRClosed(c) /\ UNCHANGED <<httpVars, handlerVars>>

SpecWebhook == Init /\ [][NextWebhook]_vars

\* the /send handler with the transport under it
NextSend ==
    \/ \E req \in SendRequests : SendReceive(req) /\ UNCHANGED <<httpVars, wh, status, query, written, evStreamError, reconnectOwed>>
    \/ SendAdmit /\ UNCHANGED <<httpVars, wh, status, query, written, evStreamError, reconnectOwed>>
    \/ SendIsConnected /\ UNCHANGED <<httpVars, wh, status, query, written, evStreamError, reconnectOwed>>
    \/ SendEnsureConnected /\ UNCHANGED <<httpVars, wh, status, query, written, evStreamError, reconnectOwed>>
    \/ SendEnsured /\ UNCHANGED <<httpVars, wh, status, query, written, evStreamError, reconnectOwed>>
    \/ SendSendText /\ UNCHANGED <<httpVars, wh, status, query, written, evStreamError, reconnectOwed>>
    \/ TransportDrop /\ UNCHANGED <<httpVars, handlerVars>>
    \/ \E c \in Senders : ConnectLock(c) /\ UNCHANGED <<httpVars, handlerVars>>
    \/ \E c \in Senders : ConnectOK(c) /\ UNCHANGED <<httpVars, handlerVars>>
    \/ \E c \in Senders : ConnectSetFlag(c) /\ UNCHANGED <<httpVars, handlerVars>>
    \/ \E c \in Senders : ConnectFail(c) /\ UNCHANGED <<httpVars, handlerVars>>
    \/ \E c \in Senders : ConnectQR(c) /\ UNCHANGED <<httpVars, handlerVars>>
    \/ \E c \in Senders : QRFail(c) /\ UNCHANGED <<httpVars, handlerVars>>
    \/ \E c \in Senders : QRSuccess(c) /\ UNCHANGED <<httpVars, handlerVars>>
    \/ \E c \in Senders : QRClosed(c) /\ UNCHANGED <<httpVars, handlerVars>>

SpecSend == Init /\ [][NextSend]_vars

\* the /contacts and /groups handlers beside a session that main connects
NextQuery ==
    \/ \E route \in QueryRoutes : QueryReceive(route) /\ UNCHANGED <<httpVars, wh, send, status, written, evStreamError, reconnectOwed>>
    \/ QueryCall /\ UNCHANGED <<httpVars, wh, send, status, written, evStreamError, reconnectOwed>>
    \/ TransportDrop /\ UNCHANGED <<httpVars, handlerVars>>
    \/ HandleConnected /\ UNCHANGED <<httpVars, handlerVars>>
    \/ \E c \in Callers : CallConnect(c) /\ UNCHANGED <<httpVars, handlerVars>>
    \/ \E c \in Callers : ConnectLock(c) /\ UNCHANGED <<httpVars, handlerVars>>
    \/ \E c \in Callers : ConnectOK(c) /\ UNCHANGED <<httpVars, handlerVars>>
    \/ \E c \in Callers : ConnectSetFlag(c) /\ UNCHANGED <<httpVars, handlerVars>>
    \/ \E c \in Callers : ConnectFail(c) /\ UNCHANGED <<httpVars, handlerVars>>
    \/ \E c \in Callers : ConnectQR(c) /\ UNCHANGED <<httpVars, handlerVars>>
    \/ \E c \in Callers : QRFail(c) /\ UNCHANGED <<httpVars, handlerVars>>
    \/ \E c \in Callers : QRSuccess(c) /\ UNCHANGED <<httpVars, handlerVars>>
    \/ \E c \in Callers : QRClosed(c) /\ UNCHANGED <<httpVars, handlerVars>>

SpecQuery == Init /\ [][NextQuery]_vars

\* the status readers against the session, one reconnection goroutine at a time
NextStatus ==
    \/ SessionNext({"L1"}, MaxFailures)
    \/ \E op \in StatusOps : StatusCall(op)
    \/ StatusIsConnected
    \/ StatusSnapshotBegin
    \/ StatusSnapshotEnd

SpecStatus == Init /\ [][NextStatus]_vars

\* everything that calls into the session or reaches its event handler, with
\* a stored credential: the three events, the reconnection goroutine, a
\* caller of Disconnect, and beside them either the /send handler with its
\* calls of IsConnected, EnsureConnected, Connect and SendText, or the
\* Connect of the startup with a reader of GetConnectionStatus
NextTriggers ==
    \/ TransportDrop /\ UNCHANGED <<httpVars, handlerVars>>
    \/ HandleConnected /\ UNCHANGED <<httpVars, handlerVars>>
    \/ HandleDisconnected({"L1"}) /\ UNCHANGED <<httpVars, handlerVars>>
    \/ LoopStart("L1") /\ UNCHANGED <<httpVars, handlerVars>>
    \/ LoopCancelled("L1") /\ UNCHANGED <<httpVars, handlerVars>>
    \/ LoopTimer("L1") /\ UNCHANGED <<httpVars, handlerVars>>
    \/ LoopProto("L1") /\ UNCHANGED <<httpVars, handlerVars>>
    \/ LoopSetConnected("L1") /\ UNCHANGED <<httpVars, handlerVars>>
    \/ LoopConnectOK("L1") /\ UNCHANGED <<httpVars, handlerVars>>
    \/ LoopConnectFail("L1", MaxFailures) /\ UNCHANGED <<httpVars, handlerVars>>
    \/ LoopExit("L1") /\ UNCHANGED <<httpVars, handlerVars>>
    \/ Disconnect /\ UNCHANGED <<httpVars, handlerVars>>
    \/ TransportStreamError /\ UNCHANGED <<httpVars, wh, send, status, query, written, reconnectOwed>>
    \/ HandleStreamError /\ UNCHANGED <<httpVars, wh, send, status, query, written, reconnectOwed>>
    \/ send.pc = "idle" /\ CallConnect("task") /\ UNCHANGED <<httpVars, handlerVars>>
    \/ ConnectLock("task") /\ UNCHANGED <<httpVars, handlerVars>>
    \/ ConnectOK("task") /\ UNCHANGED <<httpVars, handlerVars>>
    \/ ConnectSetFlag("task") /\ UNCHANGED <<httpVars, handlerVars>>
    \/ ConnectFail("task") /\ UNCHANGED <<httpVars, handlerVars>>
    \/ send.pc = "idle" /\ StatusCall("GetConnectionStatus")
    \/ StatusSnapshotBegin
    \/ StatusSnapshotEnd
    \/ \E req \in {q \in SendRequests : q.decodes /\ ValidateSendMessageRequest(q) = "none"} :
          /\ status.pc = "idle" /\ callers["task"].op = "none"
          /\ SendReceive(req)
          /\ UNCHANGED <<httpVars, wh, status, query, written, evStreamError, reconnectOwed>>
    \/ SendAdmit /\ UNCHANGED <<httpVars, wh, status, query, written, evStreamError, reconnectOwed>>
    \/ SendIsConnected /\ UNCHANGED <<httpVars, wh, status, query, written, evStreamError, reconnectOwed>>
    \/ SendEnsureConnected /\ UNCHANGED <<httpVars, wh, status, query, written, evStreamError, reconnectOwed>>
    \/ SendEnsured /\ UNCHANGED <<httpVars, wh, status, query, written, evStreamError, reconnectOwed>>
    \/ SendSendText /\ UNCHANGED <<httpVars, wh, status, query, written, evStreamError, reconnectOwed>>
    \/ \E c \in Senders : ConnectLock(c) /\ UNCHANGED <<httpVars, handlerVars>>
    \/ \E c \in Senders : ConnectOK(c) /\ UNCHANGED <<httpVars, handlerVars>>
    \/ \E c \in Senders : ConnectSetFlag(c) /\ UNCHANGED <<httpVars, handlerVars>>
    \/ \E c \in Senders : ConnectFail(c) /\ UNCHANGED <<httpVars, handlerVars>>

InitTriggers == Init /\ storeID

SpecTriggers == InitTriggers /\ [][NextTriggers]_vars

\* the session with a stored credential, and the record of the disconnects
\* that still wait for a reconnection attempt
NextRecovery ==
    \/ TransportDrop /\ UNCHANGED <<httpVars, handlerVars>>
    \/ HandleConnected /\ UNCHANGED <<httpVars, handlerVars>>
    \/ HandleDisconnected(Loops) /\ reconnectOwed' = (storeID /\ ~closed) /\ UNCHANGED <<httpVars, wh, send, status, query, written, evStreamError>>
    \/ \E l \in Loops : LoopStart(l) /\ UNCHANGED <<httpVars, handlerVars>>
    \/ \E l \in Loops : LoopCancelled(l) /\ UNCHANGED <<httpVars, handlerVars>>
    \/ \E l \in Loops : LoopTimer(l) /\ UNCHANGED <<httpVars, handlerVars>>
    \/ \E l \in Loops : LoopProto(l) /\ UNCHANGED <<httpVars, handlerVars>>
    \/ \E l \in Loops : LoopSetConnected(l) /\ UNCHANGED <<httpVars, handlerVars>>
    \/ \E l \in Loops : LoopConnectOK(l) /\ reconnectOwed' = FALSE /\ UNCHANGED <<httpVars, wh, send, status, query, written, evStreamError>>
    \/ \E l \in Loops : LoopConnectFail(l, MaxFailures) /\ reconnectOwed' = FALSE /\ UNCHANGED <<httpVars, wh, send, status, query, written, evStreamError>>
    \/ \E l \in Loops : LoopExit(l) /\ UNCHANGED <<httpVars, handlerVars>>
    \/ \E c \in Callers : CallConnect(c) /\ UNCHANGED <<httpVars, handlerVars>>
    \/ \E c \in Callers : CallEnsureConnected(c) /\ UNCHANGED <<httpVars, handlerVars>>
    \/ \E c \in Callers : ConnectLock(c) /\ UNCHANGED <<httpVars, handlerVars>>
    \/ \E c \in Callers : ConnectOK(c) /\ UNCHANGED <<httpVars, handlerVars>>
    \/ \E c \in Callers : ConnectSetFlag(c) /\ UNCHANGED <<httpVars, handlerVars>>
    \/ \E c \in Callers : ConnectFail(c) /\ UNCHANGED <<httpVars, handlerVars>>
    \/ Disconnect /\ reconnectOwed' = FALSE /\ UNCHANGED <<httpVars, wh, send, status, query, written, evStreamError>>

SpecRecovery == InitTriggers /\ [][NextRecovery]_vars

\* handlers calling EnsureConnected at the same time on a session with a
\* stored credential; the transport accepts every connect call but one made
\* while the socket is up (ErrAlreadyConnected)
Ensurers == Callers \cup Senders

NextEnsure ==
    \/ TransportDrop /\ UNCHANGED <<httpVars, handlerVars>>
    \/ HandleConnected /\ UNCHANGED <<httpVars, handlerVars>>
    \/ HandleDisconnected({"L1"}) /\ UNCHANGED <<httpVars, handlerVars>>
    \/ LoopStart("L1") /\ UNCHANGED <<httpVars, handlerVars>>
    \/ LoopCancelled("L1") /\ UNCHANGED <<httpVars, handlerVars>>
    \/ LoopTimer("L1") /\ UNCHANGED <<httpVars, handlerVars>>
    \/ LoopProto("L1") /\ UNCHANGED <<httpVars, handlerVars>>
    \/ LoopSetConnected("L1") /\ UNCHANGED <<httpVars, handlerVars>>
    \/ LoopConnectOK("L1") /\ UNCHANGED <<httpVars, handlerVars>>
    \/ clientConnected /\ LoopConnectFail("L1", MaxFailures) /\ UNCHANGED <<httpVars, handlerVars>>
    \/ LoopExit("L1") /\ UNCHANGED <<httpVars, handlerVars>>
    \/ \E c \in Ensurers : CallEnsureConnected(c) /\ UNCHANGED <<httpVars, handlerVars>>
    \/ \E c \in Ensurers : ConnectLock(c) /\ UNCHANGED <<httpVars, handlerVars>>
    \/ \E c \in Ensurers : ConnectOK(c) /\ UNCHANGED <<httpVars, handlerVars>>
    \/ \E c \in Ensurers : ConnectSetFlag(c) /\ UNCHANGED <<httpVars, handlerVars>>
    \/ \E c \in Ensurers : clientConnected /\ ConnectFail(c) /\ UNCHANGED <<httpVars, handlerVars>>

SpecEnsure == InitTriggers /\ [][NextEnsure]_vars

\* one reconnection goroutine walked to its end: every step of the goroutine
\* is taken in the end (the scheduler runs it, the timer fires, a waiter gets
\* the lock, w.Client.Connect() returns), and a caller inside Connect leaves it
NextTerminate ==
    \/ TransportDrop /\ UNCHANGED <<httpVars, handlerVars>>
    \/ HandleConnected /\ UNCHANGED <<httpVars, handlerVars>>
    \/ HandleDisconnected({"L1"}) /\ UNCHANGED <<httpVars, handlerVars>>
    \/ LoopStart("L1") /\ UNCHANGED <<httpVars, handlerVars>>
    \/ LoopCancelled("L1") /\ UNCHANGED <<httpVars, handlerVars>>
    \/ LoopTimer("L1") /\ UNCHANGED <<httpVars, handlerVars>>
    \/ LoopProto("L1") /\ UNCHANGED <<httpVars, handlerVars>>
    \/ LoopSetConnected("L1") /\ UNCHANGED <<httpVars, handlerVars>>
    \/ LoopConnectOK("L1") /\ UNCHANGED <<httpVars, handlerVars>>
    \/ LoopConnectFail("L1", MaxRetries) /\ UNCHANGED <<httpVars, handlerVars>>
    \/ LoopExit("L1") /\ UNCHANGED <<httpVars, handlerVars>>
    \/ \E c \in Callers : CallEnsureConnected(c) /\ UNCHANGED <<httpVars, handlerVars>>
    \/ \E c \in Callers : ConnectLock(c) /\ UNCHANGED <<httpVars, handlerVars>>
    \/ \E c \in Callers : ConnectOK(c) /\ UNCHANGED <<httpVars, handlerVars>>
    \/ \E c \in Callers : ConnectSetFlag(c) /\ UNCHANGED <<httpVars, handlerVars>>
    \/ \E c \in Callers : ConnectFail(c) /\ UNCHANGED <<httpVars, handlerVars>>
    \/ Disconnect /\ UNCHANGED <<httpVars, handlerVars>>

LoopFairness ==
    /\ SF_vars(LoopStart("L1") /\ UNCHANGED <<httpVars, handlerVars>>)
    /\ SF_vars((LoopCancelled("L1") \/ LoopTimer("L1")) /\ UNCHANGED <<httpVars, handlerVars>>)
    /\ WF_vars(LoopProto("L1") /\ UNCHANGED <<httpVars, handlerVars>>)
    /\ SF_vars(LoopSetConnected("L1") /\ UNCHANGED <<httpVars, handlerVars>>)
    /\ WF_vars((LoopConnectOK("L1") \/ LoopConnectFail("L1", MaxRetries))
                  /\ UNCHANGED <<httpVars, handlerVars>>)
    /\ SF_vars(LoopExit("L1") /\ UNCHANGED <<httpVars, handlerVars>>)
    /\ WF_vars((\E c \in Callers : ConnectOK(c) \/ ConnectSetFlag(c) \/ ConnectFail(c))
                  /\ UNCHANGED <<httpVars, handlerVars>>)

SpecTerminate == InitTriggers /\ [][NextTerminate]_vars /\ LoopFairness

\* the two families of locks.  RateLimit returns from Allow before the handler
\* runs, so no goroutine holds rl.mutex and w.reconnectMutex together: a
\* behaviour exercises the limiter or the session
SessionUntouched ==
    /\ \A c \in Ensurers : callers[c].op = "none"
    /\ status.pc = "idle"
    /\ ~closed
\* the goroutines that call Allow
Allowers == {"r1", "r2"}

LimiterUntouched ==
    /\ \A p \in Procs : allowers[p].pc = "idle"
    /\ \A ip \in Identities : clients[ip] = NoBucket

\* a second Connect, from a request handler while the session reconnects, is
\* part of the behaviours that have no reader and no Disconnect
OneCallerOnly == \A c \in Senders : callers[c].op = "none"

NextLocks ==
    \/ \E p \in Allowers, ip \in AllowIdentities :
          SessionUntouched /\ AllowCall(p, ip) /\ UNCHANGED <<sessionVars, handlerVars, now, admitted, lastReq, arrived>>
    \/ \E p \in Allowers : AllowLock(p) /\ UNCHANGED <<sessionVars, handlerVars, now, admitted, lastReq, arrived>>
    \/ \E p \in Allowers : AllowLookup(p) /\ UNCHANGED <<sessionVars, handlerVars, now, admitted, lastReq, arrived>>
    \/ \E p \in Allowers : AllowElapsed(p) /\ UNCHANGED <<sessionVars, handlerVars, now, admitted, lastReq, arrived>>
    \/ \E p \in Allowers : AllowRefill(p) /\ UNCHANGED <<sessionVars, handlerVars, now, admitted, lastReq, arrived>>
    \/ \E p \in Allowers : AllowCheck(p) /\ UNCHANGED <<sessionVars, handlerVars, now, admitted, lastReq, arrived>>
    \/ \E p \in Allowers : AllowTake(p) /\ UNCHANGED <<sessionVars, handlerVars, now, admitted, lastReq, arrived>>
    \/ \E p \in Allowers : AllowUnlock(p) /\ UNCHANGED <<sessionVars, handlerVars, now, admitted, lastReq, arrived>>
    \/ TransportDrop /\ UNCHANGED <<httpVars, handlerVars>>
    \/ HandleConnected /\ UNCHANGED <<httpVars, handlerVars>>
    \/ HandleDisconnected({"L1"}) /\ UNCHANGED <<httpVars, handlerVars>>
    \/ LoopStart("L1") /\ UNCHANGED <<httpVars, handlerVars>>
    \/ LoopCancelled("L1") /\ UNCHANGED <<httpVars, handlerVars>>
    \/ LoopTimer("L1") /\ UNCHANGED <<httpVars, handlerVars>>
    \/ LoopProto("L1") /\ UNCHANGED <<httpVars, handlerVars>>
    \/ LoopSetConnected("L1") /\ UNCHANGED <<httpVars, handlerVars>>
    \/ LoopConnectOK("L1") /\ UNCHANGED <<httpVars, handlerVars>>
    \/ LoopConnectFail("L1", MaxRetries) /\ UNCHANGED <<httpVars, handlerVars>>
    \/ LoopExit("L1") /\ UNCHANGED <<httpVars, handlerVars>>
    \/ \E c \in Callers : LimiterUntouched /\ callers[c].op = "none" /\ CallConnect(c) /\ UNCHANGED <<httpVars, handlerVars>>
    \/ \E c \in Senders : /\ callers[c].op = "none"
                           /\ loops["L1"].pc # "idle"
                           /\ status.pc = "idle"
                           /\ ~closed
                           /\ CallConnect(c) /\ UNCHANGED <<httpVars, handlerVars>>
    \/ \E c \in Ensurers : ConnectLock(c) /\ UNCHANGED <<httpVars, handlerVars>>
    \/ \E c \in Ensurers : ConnectOK(c) /\ UNCHANGED <<httpVars, handlerVars>>
    \/ \E c \in Ensurers : ConnectSetFlag(c) /\ UNCHANGED <<httpVars, handlerVars>>
    \/ \E c \in Ensurers : ConnectFail(c) /\ UNCHANGED <<httpVars, handlerVars>>
    \/ \E c \in Ensurers : ConnectQR(c) /\ UNCHANGED <<httpVars, handlerVars>>
    \/ \E c \in Ensurers : QRFail(c) /\ UNCHANGED <<httpVars, handlerVars>>
    \/ \E c \in Ensurers : QRSuccess(c) /\ UNCHANGED <<httpVars, handlerVars>>
    \/ \E c \in Ensurers : QRClosed(c) /\ UNCHANGED <<httpVars, handlerVars>>
    \/ LimiterUntouched /\ OneCallerOnly /\ Disconnect /\ UNCHANGED <<httpVars, handlerVars>>
    \/ \E op \in StatusOps : LimiterUntouched /\ OneCallerOnly /\ status.pc = "idle" /\ StatusCall(op)
    \/ StatusIsConnected
    \/ StatusSnapshotBegin
    \/ StatusSnapshotEnd

\* a goroutine that can go on does go on: it takes a lock that stays free,
\* and the transport calls it makes under the lock return (weak fairness).
\* Allow is called without end, so rl.mutex is free again and again but never
\* for good: sync.Mutex hands it to a goroutine that keeps waiting (strong
\* fairness)
LockFairness ==
    /\ WF_vars(HandleConnected /\ UNCHANGED <<httpVars, handlerVars>>)
    /\ WF_vars(HandleDisconnected({"L1"}) /\ UNCHANGED <<httpVars, handlerVars>>)
    /\ WF_vars((\/ LoopStart("L1") \/ LoopCancelled("L1") \/ LoopTimer("L1")
                \/ LoopProto("L1") \/ LoopSetConnected("L1") \/ LoopConnectOK("L1")
                \/ LoopConnectFail("L1", MaxRetries) \/ LoopExit("L1"))
                /\ UNCHANGED <<httpVars, handlerVars>>)
    /\ WF_vars((\E c \in Ensurers :
                  \/ ConnectLock(c) \/ ConnectOK(c) \/ ConnectSetFlag(c) \/ ConnectFail(c)
                  \/ ConnectQR(c) \/ QRFail(c) \/ QRSuccess(c) \/ QRClosed(c))
                /\ UNCHANGED <<httpVars, handlerVars>>)
    /\ WF_vars(StatusIsConnected \/ StatusSnapshotBegin \/ StatusSnapshotEnd)
    /\ \A p \in Allowers : SF_vars(AllowLock(p) /\ UNCHANGED <<sessionVars, handlerVars, now, admitted, lastReq, arrived>>)
    /\ WF_vars((\E p \in Allowers : \/ AllowLookup(p) \/ AllowElapsed(p) \/ AllowRefill(p)
                                   \/ AllowCheck(p) \/ AllowTake(p) \/ AllowUnlock(p))
                /\ UNCHANGED <<sessionVars, handlerVars, now, admitted, lastReq, arrived>>)

SpecLocks == Init /\ [][NextLocks]_vars /\ LockFairness

\* ------------------------------------------------------------------ claims

LoopAlive(l) == loops[l].pc \notin {"idle", "start"}

\* C1: at most one reconnection retry loop (a startReconnection run that has
\* passed its guard check and has not yet returned) is alive at any time.
C1_AtMostOneLoopAlive ==
    Cardinality({l \in Loops : LoopAlive(l)}) <= 1

\* C4: IsConnected() is true only when the internal flag, the transport's
\* connected predicate and the stored credential are all three present, and
\* false as soon as one of them is missing.
C4_IsConnectedNeedsAllThree ==
    IsConnected <=> (isConnected /\ clientConnected /\ storeID)

RECURSIVE Pow(_, _)
Pow(b, k) == IF k = 0 THEN 1 ELSE b * Pow(b, k - 1)

\* d = min(InitialInterval * Multiplier^k, MaxInterval), in exact arithmetic
IsBackoffInterval(d, k) ==
    IF InitialInterval.q * Pow(MultNum, k) > MaxInterval.q * Pow(MultDen, k)
    THEN d = MaxInterval
    ELSE d.r = 0 /\ d.q * Pow(MultDen, k) = InitialInterval.q * Pow(MultNum, k)

\* C7: in a reconnection sequence attempt k (k = 0, 1, ...), reached after k
\* failed attempts, follows a wait of min(initialInterval * multiplier^k,
\* maxInterval), and the sequence makes at most maxAttempts attempts.
C7_BackoffSchedule ==
    \A l \in Loops :
        /\ loops[l].tries <= MaxRetries
        /\ loops[l].pc \in {"select", "proto", "setConn", "connect"}
              => loops[l].attempt <= MaxRetries
        /\ loops[l].pc \in {"proto", "setConn", "connect"}
              => /\ loops[l].tries = loops[l].attempt - 1
                 /\ IsBackoffInterval(loops[l].waited, loops[l].attempt - 1)

\* the last attempt of a sequence in which every earlier attempt failed
C7_Witness ==
    \E l \in Loops :
        /\ loops[l].pc = "connect"
        /\ loops[l].attempt = MaxRetries
        /\ loops[l].tries = MaxRetries - 1

\* C8: once Disconnect() has returned, and until a caller asks to connect
\* again, no reconnection loop issues a transport connect call.
C8_NoReconnectAfterDisconnect ==
    [][closed => \A l \in Loops :
                    ~(loops[l].pc = "connect" /\ loops'[l].pc # "connect")]_vars

\* C9: Disconnect() is idempotent: from any reachable state a second call in
\* a row changes nothing of what the first one left (flag false, handle nil),
\* and with no reconnection in flight no goroutine is cancelled.
C9_DisconnectIdempotent ==
    LET d1 == DisconnectState(SessionState)
        d2 == DisconnectState(d1)
    IN  /\ d2 = d1
        /\ d1.isConnected = FALSE
        /\ d1.cancelReconnect = "nil"
        /\ cancelReconnect = "nil" => d1.cancelled = SessionState.cancelled

\* Disconnect() has run and cancelled a reconnection that was in flight
C9_Witness ==
    /\ closed
    /\ ~isConnected
    /\ cancelReconnect = "nil"
    /\ \E l \in Loops : loops[l].pc = "select" /\ loops[l].cancelled

\* ------------------------------------------------- claims on the middleware

\* C2: the rate-limit decision comes before the API-key check: a request with
\* a missing or invalid key still goes through Allow for its client, and a
\* client that is over its limit is answered 429 whatever key it sends.
C2_RateLimitBeforeAuth ==
    lastReq.served =>
        /\ (~AuthExempt(lastReq.req.path) /\ ~isValidAPIKey(lastReq.req.key))
              => lastReq.limited
        /\ lastReq.overLimit => lastReq.status = 429

\* successful Allow calls of ip at the ticks from..to
RECURSIVE Admitted(_, _, _)
Admitted(ip, from, to) ==
    IF from > to \/ from > MaxTime THEN 0
    ELSE admitted[ip][from] + Admitted(ip, from + 1, to)

\* C5 as stated: wherever a window of length windowSize is placed, at most
\* requestsPerMinute calls of one identity succeed in it.
C5_AnyWindowAtMostC ==
    \A ip \in Identities : \A s \in 0..MaxTime :
        Admitted(ip, s, s + windowSize - 1) <= requestsPerMinute

\* C5 amended: in the window of length windowSize that starts at a refill of
\* the identity's bucket (its creation or a reset), the calls that succeeded
\* are exactly the tokens taken from the full bucket, at most
\* requestsPerMinute; a call is denied only once all of them are taken, and
\* none succeeds after the window until the next refill.
C5_RefillWindowAtMostC ==
    /\ \A ip \in Identities :
          clients[ip] # NoBucket =>
            LET b == clients[ip]
            IN  /\ 0 <= b.tokens /\ b.tokens <= requestsPerMinute
                /\ Admitted(ip, b.lastRefill, b.lastRefill + windowSize - 1)
                      = requestsPerMinute - b.tokens
                /\ \A t \in 0..MaxTime :
                      t >= b.lastRefill + windowSize => admitted[ip][t] = 0
    /\ (lastReq.served /\ lastReq.limited /\ ~lastReq.allowed) =>
          /\ lastReq.status = 429
          /\ clients[getClientIP(lastReq.req)].tokens = 0

\* the (C+1)th call inside one refill window was denied
C5_Witness ==
    /\ lastReq.served /\ lastReq.limited /\ ~lastReq.allowed
    /\ Admitted(getClientIP(lastReq.req), clients[getClientIP(lastReq.req)].lastRefill,
                now) = requestsPerMinute

\* C6: an Allow call on a bucket last refilled at least windowSize ago resets
\* it to the full requestsPerMinute and stamps the refill time with now before
\* taking the token; a call on a younger bucket adds no token and keeps the
\* refill time.
C6_FullRefill ==
    [][\A ip \in Identities :
          (/\ lastReq'.seq # lastReq.seq
           /\ lastReq'.limited
           /\ getClientIP(lastReq'.req) = ip
           /\ clients[ip] # NoBucket) =>
              IF now - clients[ip].lastRefill >= windowSize
              THEN clients'[ip] = [tokens |-> requestsPerMinute - 1,
                                   lastRefill |-> now]
              ELSE /\ clients'[ip].lastRefill = clients[ip].lastRefill
                   /\ clients'[ip].tokens <= clients[ip].tokens]_vars

\* a bucket that had run empty in an earlier window was refilled by the call
\* just served
C6_Witness ==
    /\ lastReq.served /\ lastReq.allowed
    /\ now >= windowSize
    /\ clients[getClientIP(lastReq.req)] =
          [tokens |-> requestsPerMinute - 1, lastRefill |-> now]
    /\ Admitted(getClientIP(lastReq.req), 0, now - windowSize) = requestsPerMinute

\* ---------------------------------------------------- claims on the webhook

\* the header carries the provider's prefix and the HMAC of this body under
\* the configured secret
SignedWith(w, secret) ==
    w.header = w.config.SignaturePrefix \o HMACHex(secret, w.body)

\* C3: a correctly signed, parseable payload with zero commits is answered
\* with a validation error (once the session is connected), and SendText is
\* never called for it.
C3_ZeroCommitsRejected ==
    (/\ wh.pc # "idle"
     /\ wh.readOK
     /\ wh.config.Secret # ""
     /\ SignedWith(wh, wh.config.Secret)
     /\ ~parsePayload(wh.body).err
     /\ parsePayload(wh.body).commits = 0) =>
        /\ ~Called("SendText")
        /\ (wh.pc = "done" /\ wh.resp # "CONNECTION_FAILED")
              => wh.resp = "INVALID_REQUEST"

\* C10: a webhook request with an empty signature header, or one whose body
\* was read and whose signature does not match it under the configured
\* secret, is answered Unauthorized, and neither parsePayload nor
\* EnsureConnected nor SendText is called for it; an empty header is rejected
\* also when no secret is configured.
C10_UnsignedRejected ==
    wh.pc # "idle" =>
        LET unsigned == wh.header = <<>>
            badSignature == /\ wh.readOK
                            /\ wh.config.Secret # ""
                            /\ ~SignedWith(wh, wh.config.Secret)
        IN  (unsigned \/ badSignature) =>
               /\ ~Called("parsePayload")
               /\ ~Called("IsConnected")
               /\ ~Called("EnsureConnected")
               /\ ~Called("SendText")
               /\ wh.pc \in {"header", "done"}
               /\ wh.pc = "done" => wh.resp = "UNAUTHORIZED"

\* a request signed with the wrong key was turned away after the signature
\* check
C10_Witness ==
    /\ wh.pc = "done"
    /\ wh.header # <<>>
    /\ wh.readOK
    /\ wh.config.Secret # ""
    /\ ~SignedWith(wh, wh.config.Secret)
    /\ Called("verifyWebhookSignature")
    /\ wh.resp = "UNAUTHORIZED"

\* C11: the signature check passes exactly when no secret is configured or
\* the header is the provider's prefix followed by the HMAC of the body read
\* under the configured secret: a digest of another body, a digest under
\* another key and a header without the required prefix are all turned away.
C11_VerifyExact ==
    (wh.pc # "idle" /\ Called("verifyWebhookSignature")) =>
        (Called("parsePayload") <=>
            (wh.config.Secret = "" \/ SignedWith(wh, wh.config.Secret)))

\* a request carrying the prefix and the right digest passed the check
C11_Witness ==
    /\ wh.pc # "idle"
    /\ wh.config.Secret # ""
    /\ wh.config.SignaturePrefix # <<>>
    /\ SignedWith(wh, wh.config.Secret)
    /\ Called("parsePayload")

\* ------------------------------------------- claims on Connect and its callers

\* C12: while authentication waits for the pairing code to be confirmed, the
\* Connect call that started it has returned and no caller of IsConnected or
\* GetConnectionStatus is held up: the session's lock is free.
C12_AuthIsAsynchronous ==
    \A c \in Callers \cup Handlers :
        callers[c].pc = "qr" => mu = "free"

\* C13: an authentication cycle ends as failed, on a timeout or a failure
\* signal, only after 5 pairing codes were asked for.
C13_AuthRetriesFiveTimes ==
    [][\A c \in Callers \cup Handlers :
          (/\ callers[c].pc = "qr"
           /\ callers'[c].pc = "idle"
           /\ callers'[c].ret = "err"
           /\ callers'[c].cause \in {"deadline", "expired"})
              => callers[c].codes = 5]_vars

\* C14: a Connect whose authentication wait ended because the caller's
\* context was cancelled does not return an error.
C14_CancelIsNotAnError ==
    \A c \in Callers \cup Handlers :
        (callers[c].pc = "idle" /\ callers[c].cause = "cancelled")
            => callers[c].ret # "err"

\* C15: with a stored credential, Connect sets the flag and returns nil only
\* if, after the transport connect call, the transport says it is connected
\* and the credential is present; otherwise it returns an error and leaves
\* the flag false.
C15_ConnectConfirmsTransport ==
    [][\A c \in Callers \cup Handlers :
          (callers[c].pc = "up" /\ callers'[c].pc = "idle") =>
              IF clientConnected /\ storeID
              THEN callers'[c].ret = "ok" /\ isConnected'
              ELSE callers'[c].ret = "err" /\ ~isConnected']_vars

\* C16: EnsureConnected returns nil without entering Connect when
\* IsConnected() is true at the call, and otherwise enters Connect, once, and
\* returns what Connect returns.
C16_EnsureConnectedDelegates ==
    [][\A c \in Callers \cup Handlers :
          /\ (/\ callers[c].pc = "idle"
              /\ callers'[c] # callers[c]
              /\ callers'[c].op = "EnsureConnected") =>
                 IF IsConnected
                 THEN /\ callers'[c].pc = "idle"
                      /\ callers'[c].ret = "ok"
                      /\ callers'[c].connects = 0
                      /\ UNCHANGED <<isConnected, clientConnected, mu>>
                 ELSE /\ callers'[c].pc = "lock"
                      /\ callers'[c].ret = "none"
          /\ callers'[c].op = "EnsureConnected" =>
                 /\ callers'[c].connects <= 1
                 /\ (callers'[c].pc = "idle" /\ callers'[c].connects = 1)
                       => callers'[c].ret \in {"ok", "err"}]_vars

\* an EnsureConnected call on a connected session returned nil at once
C16_Witness ==
    \E c \in Callers :
        /\ callers[c].op = "EnsureConnected"
        /\ callers[c].pc = "idle"
        /\ callers[c].ret = "ok"
        /\ callers[c].connects = 0
        /\ IsConnected

\* ------------------------------------------------ claims on the status readers

\* C17: every snapshot GetConnectionStatus returns is consistent: its
\* "connected" entry is the AND of its "internal_state" and "client_state"
\* entries.
C17_SnapshotConsistent ==
    (status.pc = "done" /\ status.op = "GetConnectionStatus") =>
        (status.connected <=> (status.internal_state /\ status.client_state))

\* C18: a call of IsConnected() is never held up by a goroutine that is
\* inside a transport connect or an authentication wait of Connect.
C18_IsConnectedNeverWaitsOnIO ==
    (status.pc = "rlock" /\ status.op = "IsConnected") =>
        ~(\E c \in Callers \cup Handlers :
              mu = c /\ callers[c].pc \in {"locked", "up", "qr"})

\* ------------------------------------------------------------------- C20
\* C20: a /send request that is at least the (requestsPerMinute + 1)th /send
\* request of its client IP at one instant (so within one window, and with no
\* refill between them) is answered 429 with Retry-After and its handler is
\* not invoked, whatever keys and connections the requests before it used.
C20_RequestBeyondLimitGets429 ==
    (lastReq.served /\ lastReq.req.path = "/send"
        /\ arrived[ClientIP(lastReq.req)] > requestsPerMinute)
      => /\ lastReq.status = 429
         /\ lastReq.retryAfter
         /\ ~lastReq.handler

\* ------------------------------------------------------------------- C19
\* C19, as stated: when SendText fails for a /send request, the response is
\* MESSAGE_SEND_FAILED and the connected flag and the reconnection guard are
\* the same after the request as they were before it.
C19_SendFailureLeavesSession ==
    [][(send.pc = "send" /\ send'.pc = "done"
            /\ send'.resp = "MESSAGE_SEND_FAILED")
         => /\ isConnected' = send.before.isConnected
            /\ cancelReconnect' = send.before.cancelReconnect]_vars

\* C19, amended: SendText answers OK or MESSAGE_SEND_FAILED, the latter
\* whenever there is no socket, and a failed SendText changes neither the
\* connected flag nor the reconnection guard: both are after it what they
\* were when it was called.
C19_FailedSendTextLeavesSession ==
    [][(send.pc = "send" /\ send'.pc = "done")
         => /\ send'.resp \in {"OK", "MESSAGE_SEND_FAILED"}
            /\ ~clientConnected => send'.resp = "MESSAGE_SEND_FAILED"
            /\ send'.resp = "MESSAGE_SEND_FAILED"
                  => UNCHANGED <<isConnected, cancelReconnect>>]_vars

\* a /send request answered MESSAGE_SEND_FAILED with the flag still set
C19_Witness ==
    /\ send.pc = "done"
    /\ send.resp = "MESSAGE_SEND_FAILED"
    /\ send.calls[Len(send.calls)] = "SendText"
    /\ isConnected

RefusalKind ==
    IF lastReq.limited /\ ~lastReq.allowed THEN "TOO_MANY_REQUESTS"
    ELSE "UNAUTHORIZED"

\* C22: every error code has one HTTP error status, the seven kinds the
\* handlers use included, and every error response carries the status of its
\* kind: those written by writeAppError and the refusals of the middleware.
C22_OneStatusPerKind ==
    /\ \A code \in ErrorCodes : getStatusCodeForError(code) \in 400..599
    /\ written.written =>
          written.status = getStatusCodeForError(written.code)
    /\ (lastReq.served /\ ~lastReq.handler) =>
          lastReq.status = getStatusCodeForError(RefusalKind)

\* a wrapped transport error was written as MESSAGE_SEND_FAILED after the
\* limiter had refused a request
C22_Witness ==
    /\ written.written
    /\ written.code = "MESSAGE_SEND_FAILED"
    /\ written.status = 500
    /\ lastReq.served /\ lastReq.status = 429

\* ------------------------------------------------------------------- C23
\* C23: a denied Allow call has no side effect: the bucket of the denied
\* identity keeps its tokens and its refill time, every other bucket is
\* unchanged, and the denied request reaches neither a handler nor the
\* session.
C23_DenialHasNoEffect ==
    [][(/\ lastReq'.seq # lastReq.seq
        /\ lastReq'.limited
        /\ ~lastReq'.allowed)
         => /\ clients' = clients
            /\ admitted' = admitted
            /\ ~lastReq'.handler
            /\ UNCHANGED sessionVars]_vars

\* a request was denied on an empty bucket that had been refilled at an
\* earlier tick, while another identity still holds tokens
C23_Witness ==
    /\ lastReq.served /\ lastReq.limited /\ ~lastReq.allowed
    /\ clients[getClientIP(lastReq.req)].lastRefill < now
    /\ \E ip \in Identities :
          /\ ip # getClientIP(lastReq.req)
          /\ clients[ip] # NoBucket
          /\ clients[ip].tokens > 0

\* ------------------------------------------------------------------- C24
\* C24: the /contacts and /groups handlers call the client method only on a
\* session that is connected at the call or after an EnsureConnected of
\* their own.
C24_QueryAfterEnsureConnected ==
    (query.pc = "done"
        /\ \E i \in DOMAIN query.calls :
              query.calls[i] \in {"GetContacts", "GetJoinedGroups"})
      => \/ query.connected
         \/ \E i \in DOMAIN query.calls : query.calls[i] = "EnsureConnected"

\* ------------------------------------------------------------------- C25
\* EnsureConnected was called for the request and has returned this result
Ensured(ret) ==
    /\ Called("EnsureConnected")
    /\ wh.pc \in {"format", "send", "done"}
    /\ \A c \in Handlers : (callers[c].ret = "ok") = ret

\* C25: for every provider, SendText is called only at the end of one fixed
\* sequence: the signature verified, the payload parsed, connectivity ensured
\* (IsConnected() true, or else EnsureConnected returning nil), the message
\* formatted. A failed EnsureConnected ends the request with
\* CONNECTION_FAILED and without SendText.
C25_SendAfterVerifyParseEnsure ==
    /\ Called("SendText") =>
          /\ wh.calls \in
               {<<"ReadAll", "verifyWebhookSignature", "parsePayload",
                  "IsConnected", "formatWebhookMessage", "SendText">>,
                <<"ReadAll", "verifyWebhookSignature", "parsePayload",
                  "IsConnected", "EnsureConnected", "formatWebhookMessage",
                  "SendText">>}
          /\ verifyWebhookSignature(wh.body, wh.header, wh.config)
          /\ ~parsePayload(wh.body).err
          /\ Called("EnsureConnected") => Ensured(TRUE)
    /\ Ensured(FALSE) =>
          /\ wh.pc = "done"
          /\ wh.resp = "CONNECTION_FAILED"
          /\ ~Called("formatWebhookMessage")
          /\ ~Called("SendText")
    /\ (wh.pc = "done" /\ wh.resp = "CONNECTION_FAILED") => Ensured(FALSE)

\* a request was refused for a failed EnsureConnected
C25_Witness ==
    /\ wh.pc = "done"
    /\ wh.resp = "CONNECTION_FAILED"
    /\ Ensured(FALSE)
    /\ wh.config.Provider = "GitHub"

\* ------------------------------------------------------------------- C26
\* C26: a reconnection loop calls w.Client.Connect() only while the session
\* is not connected: the internal flag is false and the transport reports no
\* connection at the call, also when a handler's EnsureConnected or a
\* Connected event restores the connection beside the loop.
C26_NoConnectWhileConnected ==
    [][\A l \in Loops :
          loops'[l].tries > loops[l].tries
             => ~isConnected /\ ~clientConnected]_vars

\* ------------------------------------------------------------------- C27
\* C27: the step that processes a Connected event sets the flag, cancels the
\* token of the loop in flight and clears the guard all at once, and a loop
\* whose token was cancelled makes no transport connect attempt any more.
C27_CancelledLoopStops ==
    [][/\ (evConnected /\ ~evConnected') =>
             /\ isConnected'
             /\ cancelReconnect' = "nil"
             /\ cancelReconnect # "nil" => loops'[cancelReconnect].cancelled
       /\ \A l \in Loops :
             loops[l].cancelled => loops'[l].tries <= loops[l].tries]_vars

\* ------------------------------------------------------------------- C28
\* C28: when a reconnection loop ends after MaxRetries failed attempts, the
\* guard is released, the internal flag is false and the goroutine is gone;
\* an EnsureConnected call made while the session is not connected enters
\* Connect.
C28_ExhaustedLeavesDisconnected ==
    [][/\ \A l \in Loops :
             (loops[l].pc = "exit" /\ loops[l].attempt > MaxRetries
                 /\ loops'[l].pc = "idle")
                => /\ cancelReconnect' = "nil"
                   /\ ~isConnected'
                   /\ \A k \in Loops : ~LoopAlive(k)'
       /\ \A c \in Callers :
             (callers[c].pc = "idle" /\ callers'[c].pc # "idle"
                 /\ callers'[c].op = "EnsureConnected" /\ ~IsConnected)
                => callers'[c].pc = "lock"]_vars

\* ------------------------------------------------------------------- C29
\* C29: of the Allow calls that run at the same time on one identity's
\* bucket, exactly as many are admitted as the bucket holds tokens, or all of
\* them: the tokens never go below zero, the calls admitted since a refill and
\* the tokens left add up to requestsPerMinute (no token is spent twice, no
\* refill applied twice), and a call is denied only when all the tokens of its
\* window have been taken.
C29_ConcurrentAllowIsAtomic ==
    /\ \A ip \in Identities :
          clients[ip] # NoBucket =>
             /\ clients[ip].tokens \in 0..requestsPerMinute
             /\ clients[ip].tokens + granted[ip][clients[ip].lastRefill]
                   = requestsPerMinute
    /\ \A p \in Procs :
          allowers[p].result = "denied" =>
             granted[allowers[p].clientIP][allowers[p].window]
                = requestsPerMinute

\* a call was denied on a bucket emptied in its window while another call
\* for the same identity waits for rl.mutex
C29_Witness ==
    \E p, q \in Procs :
        /\ p # q
        /\ allowers[p].result = "denied"
        /\ allowers[p].pc = "unlock"
        /\ rlMutex = p
        /\ allowers[q].pc = "lock"
        /\ allowers[q].clientIP = allowers[p].clientIP

\* ------------------------------------------------------------------- C30
\* C30: the buckets of different identities are independent: every step of
\* an Allow call for one identity, admitted or denied, leaves the tokens and
\* the refill time of every other identity's bucket as they were, and a call
\* is denied only when the bucket of its own identity is empty.
C30_BucketsAreIndependent ==
    [][\A p \in Procs :
          allowers'[p] # allowers[p] =>
             /\ \A ip \in Identities :
                   ip # allowers'[p].clientIP /\ ip # allowers[p].clientIP
                      => clients'[ip] = clients[ip]
             /\ allowers'[p].result = "denied" =>
                   clients[allowers[p].clientIP].tokens = 0]_vars

\* a call was admitted while the bucket of another identity is empty and
\* its window has not elapsed
C30_Witness ==
    \E p \in Procs :
        /\ allowers[p].result = "admitted"
        /\ \E ip \in Identities :
              /\ ip # allowers[p].clientIP
              /\ clients[ip] # NoBucket
              /\ clients[ip].tokens = 0
              /\ now - clients[ip].lastRefill < windowSize

\* ------------------------------------------------------------------- C31
\* C31: in every reachable state every client bucket holds at least zero
\* and at most requestsPerMinute tokens, whatever the order of the Allow calls
\* and however much time passes between their steps.
C31_TokensWithinCapacity ==
    \A ip \in Identities :
        clients[ip] # NoBucket =>
            /\ 0 <= clients[ip].tokens
            /\ clients[ip].tokens <= requestsPerMinute

\* a call stands at the token test of a bucket emptied at an earlier tick,
\* beside the bucket of another identity that was filled after the start
C31_Witness ==
    \E p \in Procs, ip \in Identities :
        /\ allowers[p].pc = "check"
        /\ clients[allowers[p].clientIP].tokens = 0
        /\ clients[allowers[p].clientIP].lastRefill < now
        /\ ip # allowers[p].clientIP
        /\ clients[ip] # NoBucket
        /\ clients[ip].lastRefill > 0

\* ------------------------------------------------------------------- C32
\* C32: a reconnection goroutine is started only by the handling of an
\* events.Disconnected that found no cancel handle: the step that starts one
\* takes that event, and it is no step of a caller of Connect,
\* EnsureConnected or Disconnect, of a status reader, of the /send handler,
\* or of the Connected or StreamError case.
C32_OnlyDisconnectedStartsLoop ==
    [][(\E l \in Loops : loops[l].pc = "idle" /\ loops'[l].pc # "idle")
         => /\ evDisconnected /\ ~evDisconnected'
            /\ cancelReconnect = "nil"
            /\ callers' = callers
            /\ status' = status
            /\ send' = send
            /\ closed' = closed
            /\ evConnected' = evConnected
            /\ evStreamError' = evStreamError]_vars

\* a reconnection goroutine has just been started while a stream error is
\* still to be handled and /send has made its SendText call
C32_Witness ==
    /\ \E l \in Loops : loops[l].pc = "start"
    /\ evStreamError
    /\ send.pc = "done"
    /\ Len(send.calls) > 0
    /\ send.calls[Len(send.calls)] = "SendText"

\* ------------------------------------------------------------------- C33
\* the session at rest: no event waits, no reconnection goroutine is started
\* or alive, no cancel handle is installed and no caller is inside Connect
AtRest ==
    /\ ~evConnected /\ ~evDisconnected
    /\ cancelReconnect = "nil"
    /\ \A l \in Loops : loops[l].pc = "idle"
    /\ \A c \in Callers : callers[c].pc = "idle"

\* C33: no disconnect is lost: once an events.Disconnected was handled with
\* a credential stored and no Disconnect() asked for, the session never comes
\* to rest disconnected before a reconnection goroutine has made a connect
\* attempt.
C33_NoDisconnectLost ==
    ~(reconnectOwed /\ AtRest /\ ~IsConnected /\ ~closed)

\* ------------------------------------------------------------------- C34
\* C34: whenever the internal flag is true the cancel handle is nil, and no
\* snapshot of GetConnectionStatus shows internal_state true together with
\* reconnection_active true.
C34_ConnectedMeansNoGuard ==
    /\ isConnected => cancelReconnect = "nil"
    /\ (status.pc = "done" /\ status.op = "GetConnectionStatus")
          => ~(status.internal_state /\ status.reconnection_active)

\* ------------------------------------------------------------------- C35
\* C35: the cancel handle follows the live loop: after every step it is
\* installed if and only if a reconnection loop is alive, and a loop that
\* exits while a handle is installed finds its own handle there, never the
\* handle of a loop started later.
C35_GuardTracksLoop ==
    [][/\ (cancelReconnect' # "nil") <=> (\E l \in Loops : LoopAlive(l)')
       /\ \A l \in Loops :
             (loops[l].pc = "exit" /\ loops'[l].pc = "idle"
                                   /\ cancelReconnect # "nil")
                => cancelReconnect = l]_vars

\* ------------------------------------------------------------------- C36
\* C36: with a stored credential and a transport that refuses only a connect
\* call made while the socket is up, every EnsureConnected call returns ok,
\* however many handlers call it at the same time and whether or not the
\* reconnection loop connects first.
C36_EveryEnsureConnectedSucceeds ==
    \A c \in Ensurers :
        (callers[c].op = "EnsureConnected" /\ callers[c].pc = "idle")
           => callers[c].ret = "ok"

\* ------------------------------------------------------------------- C37
\* a body that does not decode, an empty or malformed recipient, an empty or
\* over-long message
Unacceptable(req) ==
    \/ ~req.decodes
    \/ req.To = NoJID
    \/ ~IsValidJID(req.To)
    \/ req.Message = 0
    \/ req.Message > 4096

\* C37: a /send request whose body does not decode or does not validate is
\* answered with a status of the 400 class before any session operation: it
\* never reaches the IsConnected test, EnsureConnected, Connect or SendText.
C37_InvalidSendRejectedEarly ==
    (send.pc # "idle" /\ Unacceptable(send.req)) =>
        /\ send.pc \in {"decode", "done"}
        /\ send.pc = "done" =>
              /\ getStatusCodeForError(send.resp) \in 400..499
              /\ \A i \in DOMAIN send.calls :
                    send.calls[i] \in {"Decode", "ValidateSendMessageRequest"}
        /\ \A c \in Senders : callers[c].pc = "idle"

\* an over-long message to a valid recipient was refused while the session
\* is connected
C37_Witness ==
    /\ send.pc = "done"
    /\ send.req.decodes
    /\ IsValidJID(send.req.To)
    /\ send.req.Message > 4096
    /\ send.resp = "VALIDATION_FAILED"
    /\ IsConnected

\* ------------------------------------------------------------------- C38
\* C38: every reconnection goroutine ends, and when it has ended the cancel
\* handle is nil, so that the next events.Disconnected starts a new one.
C38_LoopTerminates ==
    /\ (loops["L1"].pc # "idle") ~> (loops["L1"].pc = "idle")
    /\ [][(loops["L1"].pc # "idle" /\ loops'["L1"].pc = "idle")
            => cancelReconnect' = "nil"]_vars

\* the goroutine is about to end after MaxRetries failed attempts, its
\* handle still installed
C38_Witness ==
    /\ loops["L1"].pc = "exit"
    /\ loops["L1"].attempt = MaxRetries + 1
    /\ loops["L1"].tries = MaxRetries
    /\ cancelReconnect = "L1"
    /\ ~isConnected

\* ------------------------------------------------------------------- C39
\* C39: no goroutine waits for a lock for ever: a caller of Connect gets
\* w.reconnectMutex, a status reader its read lock, the event callbacks and
\* the reconnection goroutine the lock at each of their requests, and an
\* Allow call rl.mutex (the bucket's lock is only taken under it).
C39_EveryLockRequestIsGranted ==
    /\ \A c \in Ensurers : (callers[c].pc = "lock") ~> (callers[c].pc # "lock")
    /\ (status.pc = "rlock") ~> (status.pc # "rlock")
    /\ evConnected ~> ~evConnected
    /\ evDisconnected ~> ~evDisconnected
    /\ (loops["L1"].pc \in {"start", "select", "setConn", "exit"})
          ~> (loops["L1"].pc \notin {"start", "select", "setConn", "exit"})
    /\ \A p \in Allowers : (allowers[p].pc = "lock") ~> (allowers[p].pc # "lock")

\* Connect holds the lock in its wait for the pairing while the callback of a
\* Disconnected event and a status reader wait for it
C39_Witness ==
    /\ \E c \in Ensurers : mu = c /\ callers[c].pc = "qr"
    /\ evDisconnected
    /\ status.pc = "rlock"

====
